---- MODULE Spec2Model ----
(***************************************************************************)
(* A model of the agent-network platform's service layer: the agent       *)
(* network service (create / update / delete / validate / invoke), the     *)
(* two network runtimes (standalone, swarm), the agent service, the AI     *)
(* model service's redaction handling and the sql.select tool adapter.     *)
(*                                                                         *)
(* Python values are modelled as follows.  None of an optional id is the   *)
(* string NoId.  A free-text setting (swarm.handoff_policy,                *)
(* swarm.default_active_agent) is a sequence of symbols, the symbol " "    *)
(* being a whitespace character and every other symbol a run of            *)
(* non-whitespace characters; None of such a setting is NoneText.  A       *)
(* table is a function from the ids of its rows; a soft-deleted row stays  *)
(* in the table with deleted = TRUE, as in the database.                   *)
(***************************************************************************)
EXTENDS Integers, Sequences, FiniteSets, TLC

VARIABLES
    agents,     \* table agent: id -> row
    aimodels,   \* table ai_model (+ ai_model_config): id -> row
    tools,      \* table agent_tool: id -> row
    networks,   \* table agent_network: id -> row
    nodeRows,   \* table agent_network_node
    edgeRows,   \* table agent_network_edge
    ifaceRows,  \* table agent_network_interface
    chatbots,   \* table chatbot: id -> row
    threads,    \* table chat_thread: id -> row
    messages,   \* table chat_message, in order of creation
    pending,    \* requests in progress: thread turns whose user message is stored and whose
                \* network call is to come, agent invocations whose model loop is running
    run,        \* the swarm runtime of the invocation in progress
    registry,   \* the tool adapter registry of the process: <<kind, provider>> -> adapter
    last        \* the last service call: its arguments and what it returned or raised

netVars == <<networks, nodeRows, edgeRows, ifaceRows>>
chatVars == <<chatbots, threads, messages, pending>>
vars == <<agents, aimodels, tools, networks, nodeRows, edgeRows, ifaceRows,
          chatbots, threads, messages, pending, run, registry, last>>

\* ------------------------------------------------------------------ values

NoId == "None"
NoneText == <<"<None>">>

Tenants == {"t1", "t2"}
AgentIds == {"a1", "a2"}
ModelIds == {"m1", "m2"}
ToolIds == {"T1", "T2"}
NetIds == {"n1", "n2"}

\* Python truthiness of an optional text: None and "" are falsy.
Truthy(text) == text # NoneText /\ text # <<>>

\* x or default
OrElse(text, default) == IF Truthy(text) THEN text ELSE default

RECURSIVE LStrip(_)
LStrip(text) ==
    IF text # <<>> /\ Head(text) = " " THEN LStrip(Tail(text)) ELSE text

RECURSIVE RStrip(_)
RStrip(text) ==
    IF text # <<>> /\ text[Len(text)] = " "
    THEN RStrip(SubSeq(text, 1, Len(text) - 1))
    ELSE text

\* str.strip()
Strip(text) == RStrip(LStrip(text))

\* The text of a node key (node keys of the model hold no whitespace).
KeyText(key) == <<key>>

Range(seq) == {seq[i] : i \in 1..Len(seq)}

\* ------------------------------------------------------- tenant-scoped reads

\* an agent lookup that lacks the deleted_at filter
AgentResolvesDeleted(t, agent_id) ==
    /\ agent_id \in DOMAIN agents
    /\ agents[agent_id].tenant = t

\* select(Agent).where(id == agent_id, tenant_id == principal.tenant_id, deleted_at IS NULL)
AgentResolves(t, agent_id) ==
    /\ agent_id \in DOMAIN agents
    /\ agents[agent_id].tenant = t
    /\ ~agents[agent_id].deleted

\* select(AgentNetwork).where(id == network_id, tenant_id == ..., deleted_at IS NULL)
NetworkResolves(t, network_id) ==
    /\ network_id \in DOMAIN networks
    /\ networks[network_id].tenant = t
    /\ ~networks[network_id].deleted

\* select(AIModel).where(id == ai_model_id, tenant_id == ..., deleted_at IS NULL)
ModelResolves(t, model_id) ==
    /\ model_id \in DOMAIN aimodels
    /\ aimodels[model_id].tenant = t
    /\ ~aimodels[model_id].deleted

\* select(AgentTool).where(id == tool_id, tenant_id == ..., deleted_at IS NULL)
ToolResolves(t, tool_id) ==
    /\ tool_id \in DOMAIN tools
    /\ tools[tool_id].tenant = t
    /\ ~tools[tool_id].deleted

\* --------------------------------------------------- outcomes of a call

Ok == [raised |-> "none", detail |-> "ok"]
Raise(kind, detail) == [raised |-> kind, detail |-> detail]

\* ------------------------------------------------ network spec validation

\* a reference check that lacks the exactly-one test
EnsureNodeReferenceExistsOnly(t, node) ==
    IF node.agent_id # NoId /\ ~AgentResolves(t, node.agent_id)
    THEN [raised |-> "AgentNetworkInvalid", detail |-> "Referenced agent not found"]
    ELSE IF node.child_network_id # NoId /\ ~NetworkResolves(t, node.child_network_id)
    THEN [raised |-> "AgentNetworkInvalid", detail |-> "Referenced child network not found"]
    ELSE [raised |-> "none", detail |-> "ok"]

\* AgentNetworkService._ensure_node_reference_exists: the outcome for one node.
EnsureNodeReferenceExists(t, node) ==
    IF node.agent_id # NoId /\ ~AgentResolves(t, node.agent_id)
    THEN Raise("AgentNetworkInvalid", "Referenced agent not found")
    ELSE IF node.child_network_id # NoId /\ ~NetworkResolves(t, node.child_network_id)
    THEN Raise("AgentNetworkInvalid", "Referenced child network not found")
    ELSE IF (node.agent_id # NoId) = (node.child_network_id # NoId)
    THEN Raise("AgentNetworkInvalid", "Node must reference exactly one of agent_id or child_network_id")
    ELSE Ok

\* for n in spec.nodes: self._ensure_node_reference_exists(n)  -- the first raise wins
RECURSIVE EnsureAllNodeReferences(_, _, _)
EnsureAllNodeReferences(t, nodes, i) ==
    IF i > Len(nodes) THEN Ok
    ELSE LET r == EnsureNodeReferenceExists(t, nodes[i])
         IN IF r.raised # "none" THEN r ELSE EnsureAllNodeReferences(t, nodes, i + 1)

NodeKeysOf(spec) == {spec.nodes[i].node_key : i \in 1..Len(spec.nodes)}

\* The adjacency dict of _assert_acyclic: every node key maps to [], then
\* graph.setdefault(source, []).append(target) for every edge, in edge order.
GraphKeys(spec) ==
    NodeKeysOf(spec) \cup {spec.edges[i].source_node_key : i \in 1..Len(spec.edges)}

RECURSIVE TargetsFrom(_, _, _)
TargetsFrom(edges, key, i) ==
    IF i > Len(edges) THEN <<>>
    ELSE IF edges[i].source_node_key = key
         THEN <<edges[i].target_node_key>> \o TargetsFrom(edges, key, i + 1)
         ELSE TargetsFrom(edges, key, i + 1)

BuildGraph(spec) == [k \in GraphKeys(spec) |-> TargetsFrom(spec.edges, k, 1)]

\* The keys of the graph dict in insertion order: node keys in spec order
\* (a repeated key keeps its first place), then edge sources not yet present.
RECURSIVE Dedup(_, _)
Dedup(seq, seen) ==
    IF seq = <<>> THEN <<>>
    ELSE IF Head(seq) \in seen THEN Dedup(Tail(seq), seen)
         ELSE <<Head(seq)>> \o Dedup(Tail(seq), seen \cup {Head(seq)})

GraphKeyOrder(spec) ==
    Dedup([i \in 1..Len(spec.nodes) |-> spec.nodes[i].node_key]
          \o [i \in 1..Len(spec.edges) |-> spec.edges[i].source_node_key], {})

\* a marking that does not tell done from in progress
ColorTwoState(visited, node) == IF node \in DOMAIN visited THEN 1 ELSE 0

\* visited.get(node, 0): 0 unvisited, 1 in progress, 2 done
Color(visited, node) == IF node \in DOMAIN visited THEN visited[node] ELSE 0

SetColor(visited, node, c) ==
    [k \in DOMAIN visited \cup {node} |-> IF k = node THEN c ELSE visited[k]]

\* graph.get(node, [])
Successors(graph, node) == IF node \in DOMAIN graph THEN graph[node] ELSE <<>>

\* dfs(node) of _assert_acyclic; st = [visited, cycle]; cycle = TRUE stands for
\* the raised AgentNetworkInvalid("Cycle detected in network edges"), which
\* unwinds every enclosing call.
RECURSIVE dfs(_, _, _)
RECURSIVE dfsEach(_, _, _, _)
dfs(graph, node, st) ==
    IF st.cycle THEN st
    ELSE IF Color(st.visited, node) = 1 THEN [st EXCEPT !.cycle = TRUE]
    ELSE IF Color(st.visited, node) = 2 THEN st
    ELSE LET entered == [st EXCEPT !.visited = SetColor(st.visited, node, 1)]
             after == dfsEach(graph, Successors(graph, node), 1, entered)
         IN IF after.cycle THEN after
            ELSE [after EXCEPT !.visited = SetColor(after.visited, node, 2)]

dfsEach(graph, succ, i, st) ==
    IF i > Len(succ) \/ st.cycle THEN st
    ELSE dfsEach(graph, succ, i + 1, dfs(graph, succ[i], st))

\* for key in graph.keys(): if visited.get(key, 0) == 0: dfs(key)
RECURSIVE dfsRoots(_, _, _, _)
dfsRoots(graph, order, i, st) ==
    IF i > Len(order) \/ st.cycle THEN st
    ELSE dfsRoots(graph, order, i + 1,
                  IF Color(st.visited, order[i]) = 0 THEN dfs(graph, order[i], st) ELSE st)

\* a cycle check that sees only an edge from a node to itself
AssertAcyclicSelfLoopsOnly(spec) ==
    \E i \in 1..Len(spec.edges) : spec.edges[i].source_node_key = spec.edges[i].target_node_key

\* AgentNetworkService._assert_acyclic: TRUE when it raises.
AssertAcyclicRaises(spec) ==
    dfsRoots(BuildGraph(spec), GraphKeyOrder(spec), 1,
             [visited |-> <<>>, cycle |-> FALSE]).cycle

\* AgentNetworkService._assert_acyclic: the visited dict when it returns or raises
AssertAcyclicVisited(spec) ==
    dfsRoots(BuildGraph(spec), GraphKeyOrder(spec), 1,
             [visited |-> <<>>, cycle |-> FALSE]).visited

\* AgentNetworkService._validate_swarm_spec
ValidateSwarmSpec(spec) ==
    IF \E i \in 1..Len(spec.nodes) :
          spec.nodes[i].agent_id = NoId \/ spec.nodes[i].child_network_id # NoId
    THEN Raise("AgentNetworkInvalid", "Swarm nodes must reference agents only in this iteration")
    ELSE LET default_active == Strip(OrElse(spec.swarm.default_active_agent, <<>>))
             policy == Strip(OrElse(spec.swarm.handoff_policy, <<"edges">>))
         IN IF default_active # <<>> /\ default_active \notin {KeyText(k) : k \in NodeKeysOf(spec)}
            THEN Raise("AgentNetworkInvalid", "default_active_agent must match a node_key")
            ELSE IF policy \notin {<<"edges">>, <<"allow_all">>}
            THEN Raise("AgentNetworkInvalid", "handoff_policy must be 'edges' or 'allow_all'")
            ELSE Ok

\* The part of AgentNetworkService.validate after the network row is loaded.
ValidateSpec(t, spec) ==
    IF \E i \in 1..Len(spec.edges) :
          \/ spec.edges[i].source_node_key \notin NodeKeysOf(spec)
          \/ spec.edges[i].target_node_key \notin NodeKeysOf(spec)
    THEN Raise("AgentNetworkInvalid", "Edge references unknown node key")
    ELSE IF spec.type # "swarm" /\ AssertAcyclicRaises(spec)
    THEN Raise("AgentNetworkInvalid", "Cycle detected in network edges")
    ELSE LET refs == EnsureAllNodeReferences(t, spec.nodes, 1)
         IN IF refs.raised # "none" THEN refs
            ELSE IF spec.type = "swarm" THEN ValidateSwarmSpec(spec)
            ELSE Ok

\* AgentNetworkService.validate
ValidateNetwork(t, network_id) ==
    IF ~NetworkResolves(t, network_id)
    THEN Raise("AgentNetworkNotFound", "Agent network not found")
    ELSE ValidateSpec(t, networks[network_id].spec)

\* ------------------------------------------------------ tool adapter registry

\* registry.register(SqlSelectAdapter.kind, ...), registry.register(VectorSimilaritySearchAdapter.kind, ...)
\* the registry once the adapter modules are imported
Registered ==
    (<<"sql.select", NoId>> :> "SqlSelectAdapter")
    @@ (<<"vector.similarity_search", NoId>> :> "VectorSimilaritySearchAdapter")

NoAdapter == "None"

\* a lookup without the fallback to the default of the kind
RegistryGetExact(kind, provider) ==
    IF <<kind, provider>> \in DOMAIN registry THEN registry[<<kind, provider>>] ELSE NoAdapter

\* Registry.get(kind, provider): the adapter found, or NoAdapter.  dict.get
\* returns None for an absent key and an adapter object is truthy, so the
\* "or" takes its right side exactly when the key (kind, provider) is absent.
RegistryGet(kind, provider) ==
    IF <<kind, provider>> \in DOMAIN registry THEN registry[<<kind, provider>>]
    ELSE IF <<kind, NoId>> \in DOMAIN registry THEN registry[<<kind, NoId>>]
    ELSE NoAdapter

\* --------------------------------------------------------- agent invocation

\* None of an optional list (tool_policy.allowed_tools, tool_overrides.allowed_tools)
NoneList == <<"<None>">>

\* No overrides: payload.get("tool_overrides") or {}.  The dict {} and the dict
\* {"allowed_tools": None} read the same: .get("allowed_tools") is None.
NoOverrides == [allowed_tools |-> NoneList]

\* a model check that never looks at is_enabled
EnsureLlmModelAnyState(t, ai_model_id, ensure_enabled) ==
    IF ~ModelResolves(t, ai_model_id)
    THEN Raise("AgentConfigInvalid", "Referenced AI model not found in tenant")
    ELSE IF aimodels[ai_model_id].category # "llm"
    THEN Raise("AgentConfigInvalid", "Agent requires an LLM category model")
    ELSE Ok

\* AgentService._ensure_llm_model
EnsureLlmModel(t, ai_model_id, ensure_enabled) ==
    IF ~ModelResolves(t, ai_model_id)
    THEN Raise("AgentConfigInvalid", "Referenced AI model not found in tenant")
    ELSE IF aimodels[ai_model_id].category # "llm"
    THEN Raise("AgentConfigInvalid", "Agent requires an LLM category model")
    ELSE IF ensure_enabled /\ ~aimodels[ai_model_id].is_enabled
    THEN Raise("AgentConfigInvalid", "Referenced AI model is disabled")
    ELSE Ok

\* an allow-list choice that takes an empty override for no override
EffectiveAllowedToolsTruthy(agent, tool_overrides) ==
    IF tool_overrides.allowed_tools # NoneList /\ tool_overrides.allowed_tools # <<>>
    THEN tool_overrides.allowed_tools
    ELSE agent.allowed_tools

\* _run_langgraph_react: the allow-list in force (allowed_field)
EffectiveAllowedTools(agent, tool_overrides) ==
    IF tool_overrides.allowed_tools # NoneList
    THEN tool_overrides.allowed_tools
    ELSE agent.allowed_tools

\* _run_langgraph_react: tool_ids, the bound ids the policy permits, in binding order
PermittedToolIds(agent, tool_overrides) ==
    LET allowed_field == EffectiveAllowedTools(agent, tool_overrides)
        allowed_set == IF allowed_field = NoneList THEN Range(agent.bound)
                       ELSE Range(allowed_field)
        Permitted(tid) == tid \in allowed_set
    IN SelectSeq(agent.bound, Permitted)

\* a tool_meta query without the tenant filter
MakesToolOfAnyTenant(t, tid) ==
    /\ tid \in DOMAIN tools
    /\ ~tools[tid].deleted
    /\ RegistryGet(tools[tid].kind, tools[tid].provider) # NoAdapter

\* _make_tool(tid) returns a tool: the id is in tool_meta (a tool row of the
\* tenant that is not soft-deleted) and its kind has an adapter
MakesTool(t, tid) ==
    /\ ToolResolves(t, tid)
    /\ RegistryGet(tools[tid].kind, tools[tid].provider) # NoAdapter

\* _run_langgraph_react: tools, the wrappers handed to create_react_agent
ExposedTools(t, agent, tool_overrides) ==
    LET Made(tid) == MakesTool(t, tid)
    IN SelectSeq(PermittedToolIds(agent, tool_overrides), Made)

NoRun == [raised |-> "none", detail |-> "ok", ran |-> FALSE, exposed |-> <<>>]
AgentRaise(kind, detail) == [NoRun EXCEPT !.raised = kind, !.detail = detail]

\* ai_model_registry.get(llm_model.type): the connector types registered at import
ConnectorTypes == {"llm.openai", "embedding.openai"}

\* AgentService.invoke: what it raises, whether the model loop ran, and with which tools
AgentInvoke(t, agent_id, tool_overrides) ==
    IF ~AgentResolves(t, agent_id) THEN AgentRaise("AgentNotFound", "Agent not found")
    ELSE IF ~agents[agent_id].is_enabled THEN AgentRaise("AgentDisabled", "Agent is disabled")
    ELSE LET mdl == EnsureLlmModel(t, agents[agent_id].ai_model_id, TRUE)
         IN IF mdl.raised # "none" THEN AgentRaise(mdl.raised, mdl.detail)
            ELSE IF aimodels[agents[agent_id].ai_model_id].type \notin ConnectorTypes
            THEN AgentRaise("AgentConfigInvalid", "LLM connector not implemented")
            ELSE [NoRun EXCEPT !.ran = TRUE,
                               !.exposed = ExposedTools(t, agents[agent_id], tool_overrides)]

\* AgentService.build_langchain_agent(agent_id, extra_tools, name): the agent
\* construction path of the invocation engine, with the handoff tools appended
\* to the agent's own tools.
BuildLangchainAgent(t, agent_id, handoff_tools) ==
    LET r == AgentInvoke(t, agent_id, NoOverrides)
    IN IF r.raised # "none" THEN [r EXCEPT !.ran = FALSE]
       ELSE [r EXCEPT !.ran = FALSE,
                      !.exposed = r.exposed \o [i \in 1..Len(handoff_tools) |-> <<"transfer_to", handoff_tools[i]>>]]

\* ------------------------------------------------------- network runtimes

\* What a network invocation did: the error raised, the agents whose model loop
\* ran (called), the swarm nodes whose agent was built (built), and per node
\* position the destinations of the handoff tools created for it (handoff).
NoExec == [raised |-> "none", detail |-> "ok", called |-> <<>>, built |-> <<>>,
           handoff |-> <<>>, exposed |-> <<>>, default_active |-> NoneText]
ExecRaise(kind, detail) == [NoExec EXCEPT !.raised = kind, !.detail = detail]

\* runtime/standalone.py invoke_standalone
InvokeStandalone(t, spec, tool_overrides) ==
    IF Len(spec.nodes) # 1
    THEN ExecRaise("AgentNetworkInvalid", "Standalone network must have a single node")
    ELSE IF spec.nodes[1].agent_id = NoId
    THEN ExecRaise("AgentNetworkInvalid", "Standalone network must reference an agent node")
    ELSE LET r == AgentInvoke(t, spec.nodes[1].agent_id, tool_overrides)
         IN [NoExec EXCEPT !.raised = r.raised, !.detail = r.detail,
                           !.called = IF r.ran THEN <<spec.nodes[1].agent_id>> ELSE <<>>,
                           !.exposed = r.exposed]

\* The order of sorted() on the node keys of the model (lexicographic)
KeyOrder == <<"A", "B", "C", "D", "E", "X">>
Sorted(S) == LET In(k) == k \in S IN SelectSeq(KeyOrder, In)

\* invoke_swarm: the handoff policy read from the spec (not stripped)
SwarmPolicy(spec) == OrElse(spec.swarm.handoff_policy, <<"edges">>)

\* an adjacency that lets every node hand off to every other, whatever the policy
AdjacencyAllOthers(spec, key) ==
    IF key \in NodeKeysOf(spec) THEN NodeKeysOf(spec) \ {key} ELSE {}

\* invoke_swarm: adjacency.get(node_key, set()), the permitted handoff targets
Adjacency(spec, key) ==
    IF SwarmPolicy(spec) = <<"edges">>
    THEN {spec.edges[i].target_node_key :
            i \in {j \in 1..Len(spec.edges) : spec.edges[j].source_node_key = key}}
    ELSE IF key \in NodeKeysOf(spec) THEN NodeKeysOf(spec) \ {key} ELSE {}

\* invoke_swarm: the destinations of the handoff tools created for a node
HandoffTools(spec, key) == Sorted(Adjacency(spec, key))

\* invoke_swarm: default_active handed to create_swarm
SwarmDefaultActive(spec) ==
    OrElse(spec.swarm.default_active_agent, KeyText(spec.nodes[1].node_key))

\* invoke_swarm: the loop over spec.nodes that builds the agents; acc is the
\* execution record so far.  A node without agent_id, or an agent that cannot
\* be built, raises out of the loop and keeps what was built before it.
RECURSIVE BuildSwarmAgents(_, _, _, _)
BuildSwarmAgents(t, spec, i, acc) ==
    IF i > Len(spec.nodes) THEN acc
    ELSE IF spec.nodes[i].agent_id = NoId
    THEN [acc EXCEPT !.raised = "AgentNetworkInvalid", !.detail = "Swarm nodes must reference agents"]
    ELSE LET dests == HandoffTools(spec, spec.nodes[i].node_key)
             b == BuildLangchainAgent(t, spec.nodes[i].agent_id, dests)
             made == [acc EXCEPT !.handoff = Append(@, dests)]
         IN IF b.raised # "none"
            THEN [made EXCEPT !.raised = b.raised, !.detail = b.detail]
            ELSE BuildSwarmAgents(t, spec, i + 1,
                                  [made EXCEPT !.built = Append(@, spec.nodes[i].node_key)])

\* runtime/swarm.py invoke_swarm, up to the compiled swarm
InvokeSwarm(t, spec) ==
    IF Len(spec.nodes) = 0
    THEN ExecRaise("AgentNetworkInvalid", "Swarm needs at least one agent node")
    ELSE LET b == BuildSwarmAgents(t, spec, 1, NoExec)
         IN IF b.raised # "none" THEN b
            ELSE [b EXCEPT !.default_active = SwarmDefaultActive(spec)]

\* AgentNetworkService.invoke
InvokeNetwork(t, network_id, tool_overrides) ==
    IF ~NetworkResolves(t, network_id)
    THEN ExecRaise("AgentNetworkNotFound", "Agent network not found")
    ELSE IF ~networks[network_id].is_enabled
    THEN ExecRaise("AgentNetworkInvalid", "Network is disabled")
    ELSE IF networks[network_id].spec.type = "standalone"
    THEN InvokeStandalone(t, networks[network_id].spec, tool_overrides)
    ELSE IF networks[network_id].spec.type = "swarm"
    THEN InvokeSwarm(t, networks[network_id].spec)
    ELSE ExecRaise("AgentNetworkInvalid", "Network type not supported in this iteration")

\* ------------------------------------------------ network service actions

\* uuid.uuid4(): an id no row has; the model takes the first unused one, and
\* a create that would add a row is not taken once every id is in use
NetIdOrder == <<"n1", "n2">>
UnusedNetIds == LET Free(n) == n \notin DOMAIN networks IN SelectSeq(NetIdOrder, Free)

NoCall == [op |-> "none", tenant |-> NoId, target |-> NoId, payload |-> <<>>, result |-> Ok]

\* no swarm is running: no agent is active, none was built, no transcript
NoSwarmRun == [status |-> "idle", active |-> NoneText, handoff |-> <<>>,
               transcript |-> <<>>, turns |-> 0]

\* no chatbot, thread or message is stored and no swarm is running
NoChat ==
    /\ chatbots = <<>>
    /\ threads = <<>>
    /\ messages = <<>>
    /\ pending = {}
    /\ run = NoSwarmRun

HasDuplicateNodeKey(spec) ==
    \E i, j \in 1..Len(spec.nodes) : i # j /\ spec.nodes[i].node_key = spec.nodes[j].node_key

\* a uniqueness check that compares the version as the caller wrote it
CreateIntegrityErrorRawVersion(t, payload) ==
    \/ \E n \in DOMAIN networks :
          /\ networks[n].tenant = t
          /\ networks[n].slug = payload.slug
          /\ networks[n].version = payload.version
    \/ \E i, j \in 1..Len(payload.spec.nodes) :
          i # j /\ payload.spec.nodes[i].node_key = payload.spec.nodes[j].node_key

\* db.commit() of create raises IntegrityError: uq_agent_network_slug_version
\* (tenant_id, slug, version; soft-deleted rows count) or uq_network_node_key
CreateIntegrityError(t, payload) ==
    \/ \E n \in DOMAIN networks :
          /\ networks[n].tenant = t
          /\ networks[n].slug = Strip(payload.slug)
          /\ networks[n].version = Strip(payload.version)
    \/ HasDuplicateNodeKey(payload.spec)

\* AgentNetworkService.create: what it returns or raises
CreateOutcome(t, payload) ==
    LET refs == EnsureAllNodeReferences(t, payload.spec.nodes, 1)
    IN IF refs.raised # "none" THEN refs
       ELSE IF CreateIntegrityError(t, payload)
       THEN Raise("AgentNetworkConflict", "A network with this slug and version already exists in the tenant")
       ELSE Ok

NodeRowsOf(id, spec) ==
    {[network_id |-> id, node_key |-> spec.nodes[i].node_key,
      agent_id |-> spec.nodes[i].agent_id,
      child_network_id |-> spec.nodes[i].child_network_id] : i \in 1..Len(spec.nodes)}

\* one row per edge of the spec (each has its own uuid: row keeps the edge's place)
EdgeRowsOf(id, spec) ==
    {[network_id |-> id, row |-> i, source_node_key |-> spec.edges[i].source_node_key,
      target_node_key |-> spec.edges[i].target_node_key] : i \in 1..Len(spec.edges)}

\* if spec.interface and isinstance(spec.interface, dict)
IfaceRowsOf(id, spec) == IF spec.interface # NoId THEN {[network_id |-> id]} ELSE {}

\* AgentNetworkService.create
CreateNetwork(t, payload) ==
    /\ LET r == CreateOutcome(t, payload)
           id == IF UnusedNetIds # <<>> THEN Head(UnusedNetIds) ELSE NoId
       IN /\ r.raised = "none" => id # NoId
          /\ IF r.raised = "none"
             THEN /\ networks' = [n \in DOMAIN networks \cup {id} |->
                                    IF n = id
                                    THEN [tenant |-> t, slug |-> Strip(payload.slug),
                                          version |-> Strip(payload.version),
                                          deleted |-> FALSE, is_enabled |-> payload.is_enabled,
                                          spec |-> payload.spec]
                                    ELSE networks[n]]
                  /\ nodeRows' = nodeRows \cup NodeRowsOf(id, payload.spec)
                  /\ edgeRows' = edgeRows \cup EdgeRowsOf(id, payload.spec)
                  /\ ifaceRows' = ifaceRows \cup IfaceRowsOf(id, payload.spec)
             ELSE UNCHANGED netVars
          /\ last' = [op |-> "network.create", tenant |-> t,
                      target |-> IF r.raised = "none" THEN id ELSE NoId,
                      payload |-> payload, result |-> r]
    /\ UNCHANGED <<agents, aimodels, tools, chatVars, run, registry>>

\* AgentNetworkService.update: what it returns or raises.  payload.spec and
\* payload.is_enabled are <<>> when the key is absent (or None), <<v>> otherwise.
UpdateOutcome(t, network_id, payload) ==
    IF ~NetworkResolves(t, network_id)
    THEN Raise("AgentNetworkNotFound", "Agent network not found")
    ELSE IF payload.spec # <<>>
    THEN EnsureAllNodeReferences(t, payload.spec[1].nodes, 1)
    ELSE Ok

\* AgentNetworkService.update: a raise leaves the session uncommitted; the
\* node and edge rows are not rewritten.
UpdateNetwork(t, network_id, payload) ==
    /\ LET r == UpdateOutcome(t, network_id, payload)
       IN /\ IF r.raised = "none"
             THEN networks' = [networks EXCEPT
                      ![network_id].is_enabled =
                          IF payload.is_enabled # <<>> THEN payload.is_enabled[1] ELSE @,
                      ![network_id].spec =
                          IF payload.spec # <<>> THEN payload.spec[1] ELSE @]
             ELSE UNCHANGED networks
          /\ last' = [op |-> "network.update", tenant |-> t, target |-> network_id,
                      payload |-> payload, result |-> r]
    /\ UNCHANGED <<agents, aimodels, tools, nodeRows, edgeRows, ifaceRows, chatVars, run, registry>>

\* AgentNetworkService.delete (soft delete)
DeleteNetwork(t, network_id) ==
    /\ IF NetworkResolves(t, network_id)
       THEN /\ networks' = [networks EXCEPT ![network_id].deleted = TRUE]
            /\ last' = [op |-> "network.delete", tenant |-> t, target |-> network_id,
                        payload |-> <<>>, result |-> Ok]
       ELSE /\ UNCHANGED networks
            /\ last' = [op |-> "network.delete", tenant |-> t, target |-> network_id,
                        payload |-> <<>>,
                        result |-> Raise("AgentNetworkNotFound", "Agent network not found")]
    /\ UNCHANGED <<agents, aimodels, tools, nodeRows, edgeRows, ifaceRows, chatVars, run, registry>>

\* AgentNetworkService.validate
ValidateNetworkCall(t, network_id) ==
    /\ last' = [op |-> "network.validate", tenant |-> t, target |-> network_id,
                payload |-> <<>>, result |-> ValidateNetwork(t, network_id)]
    /\ UNCHANGED <<agents, aimodels, tools, networks, nodeRows, edgeRows, ifaceRows, chatVars, run, registry>>

\* AgentNetworkService.invoke
InvokeNetworkCall(t, network_id, tool_overrides) ==
    /\ last' = [op |-> "network.invoke", tenant |-> t, target |-> network_id,
                payload |-> tool_overrides,
                result |-> InvokeNetwork(t, network_id, tool_overrides)]
    /\ UNCHANGED <<agents, aimodels, tools, networks, nodeRows, edgeRows, ifaceRows, chatVars, run, registry>>

\* AgentService.delete (soft delete)
DeleteAgent(t, agent_id) ==
    /\ IF AgentResolves(t, agent_id)
       THEN /\ agents' = [agents EXCEPT ![agent_id].deleted = TRUE]
            /\ last' = [op |-> "agent.delete", tenant |-> t, target |-> agent_id,
                        payload |-> <<>>, result |-> Ok]
       ELSE /\ UNCHANGED agents
            /\ last' = [op |-> "agent.delete", tenant |-> t, target |-> agent_id,
                        payload |-> <<>>, result |-> Raise("AgentNotFound", "Agent not found")]
    /\ UNCHANGED <<aimodels, tools, networks, nodeRows, edgeRows, ifaceRows, chatVars, run, registry>>

\* ------------------------------------------------ agent service actions

\* runtime_limits.max_steps, runtime_limits.max_duration_s and
\* tool_policy.max_tool_calls of an agent config, with the defaults of
\* _validate_config_semantics filled in
DefaultLimits == [max_steps |-> 16, max_duration_s |-> 60, max_tool_calls |-> 8]

\* AgentService._validate_config_semantics
ValidateConfigSemantics(limits) ==
    IF limits.max_steps < 1 \/ limits.max_steps > 64
    THEN Raise("AgentConfigInvalid", "runtime_limits.max_steps out of bounds")
    ELSE IF limits.max_duration_s < 1 \/ limits.max_duration_s > 300
    THEN Raise("AgentConfigInvalid", "runtime_limits.max_duration_s out of bounds")
    ELSE IF limits.max_tool_calls < 0 \/ limits.max_tool_calls > 32
    THEN Raise("AgentConfigInvalid", "tool_policy.max_tool_calls out of bounds")
    ELSE Ok

\* AgentService._ensure_tools_exist: every bound id is an enabled tool of the tenant
EnsureToolsExist(t, bound) ==
    IF \E i \in 1..Len(bound) : ~(ToolResolves(t, bound[i]) /\ tools[bound[i]].is_enabled)
    THEN Raise("AgentConfigInvalid", "Unknown/disabled tools referenced")
    ELSE Ok

\* the first of a sequence of outcomes that raises
RECURSIVE FirstRaise(_)
FirstRaise(outcomes) ==
    IF outcomes = <<>> THEN Ok
    ELSE IF Head(outcomes).raised # "none" THEN Head(outcomes)
    ELSE FirstRaise(Tail(outcomes))

AgentIdOrder == <<"a1", "a2">>
UnusedAgentIds == LET Free(a) == a \notin DOMAIN agents IN SelectSeq(AgentIdOrder, Free)

\* uq_agent_tenant_name: (tenant_id, name), soft-deleted rows included
AgentNameTaken(t, name, except) ==
    \E a \in DOMAIN agents \ {except} : agents[a].tenant = t /\ agents[a].name = name

\* AgentService.create: what it returns or raises
CreateAgentOutcome(t, payload) ==
    FirstRaise(<<EnsureLlmModel(t, payload.ai_model_id, FALSE),
                 EnsureToolsExist(t, payload.bound),
                 ValidateConfigSemantics(payload.limits),
                 IF AgentNameTaken(t, Strip(payload.name), NoId)
                 THEN Raise("AgentConflict", "An agent with this name already exists in the tenant")
                 ELSE Ok>>)

\* AgentService.create
CreateAgent(t, payload) ==
    /\ LET r == CreateAgentOutcome(t, payload)
           id == IF UnusedAgentIds # <<>> THEN Head(UnusedAgentIds) ELSE NoId
       IN /\ r.raised = "none" => id # NoId
          /\ IF r.raised = "none"
             THEN agents' = [a \in DOMAIN agents \cup {id} |->
                               IF a = id
                               THEN [tenant |-> t, name |-> Strip(payload.name), deleted |-> FALSE,
                                     is_enabled |-> payload.is_enabled,
                                     ai_model_id |-> payload.ai_model_id, bound |-> payload.bound,
                                     allowed_tools |-> payload.allowed_tools,
                                     limits |-> payload.limits]
                               ELSE agents[a]]
             ELSE UNCHANGED agents
          /\ last' = [op |-> "agent.create", tenant |-> t,
                      target |-> IF r.raised = "none" THEN id ELSE NoId,
                      payload |-> payload, result |-> r]
    /\ UNCHANGED <<aimodels, tools, networks, nodeRows, edgeRows, ifaceRows, chatVars, run, registry>>

NotFoundAgent == Raise("AgentNotFound", "Agent not found")

\* AgentService.get
GetAgent(t, agent_id) ==
    /\ last' = [op |-> "agent.get", tenant |-> t, target |-> agent_id, payload |-> <<>>,
                result |-> IF AgentResolves(t, agent_id) THEN Ok ELSE NotFoundAgent]
    /\ UNCHANGED <<agents, aimodels, tools, networks, nodeRows, edgeRows, ifaceRows, chatVars, run, registry>>

\* AgentService.list: the ids of the rows returned; enabled is <<>> (no filter) or <<b>>.
\* The default page (limit 20) holds every row of the model.
ListedAgents(t, enabled) ==
    {a \in DOMAIN agents :
        /\ agents[a].tenant = t
        /\ ~agents[a].deleted
        /\ enabled # <<>> => agents[a].is_enabled = enabled[1]}

ListAgents(t, enabled) ==
    /\ last' = [op |-> "agent.list", tenant |-> t, target |-> NoId, payload |-> enabled,
                result |-> [raised |-> "none", detail |-> "ok", items |-> ListedAgents(t, enabled)]]
    /\ UNCHANGED <<agents, aimodels, tools, networks, nodeRows, edgeRows, ifaceRows, chatVars, run, registry>>

\* AgentService.update: what it returns or raises.  Every key of the payload is
\* <<>> when absent (or None) and <<v>> otherwise; a config carries the limits
\* and tool_policy.allowed_tools.
UpdateAgentOutcome(t, agent_id, payload) ==
    IF ~AgentResolves(t, agent_id) THEN NotFoundAgent
    ELSE FirstRaise(<<IF payload.ai_model_id # <<>>
                      THEN EnsureLlmModel(t, payload.ai_model_id[1], FALSE) ELSE Ok,
                      IF payload.bound # <<>> THEN EnsureToolsExist(t, payload.bound[1]) ELSE Ok,
                      IF payload.config # <<>>
                      THEN ValidateConfigSemantics(payload.config[1].limits) ELSE Ok,
                      IF payload.name # <<>> /\ Truthy(payload.name[1])
                         /\ AgentNameTaken(t, Strip(payload.name[1]), agent_id)
                      THEN Raise("AgentConflict", "An agent with this name already exists in the tenant")
                      ELSE Ok>>)

\* AgentService.update
UpdateAgent(t, agent_id, payload) ==
    /\ LET r == UpdateAgentOutcome(t, agent_id, payload)
       IN /\ IF r.raised = "none"
             THEN agents' = [agents EXCEPT
                      ![agent_id].name =
                          IF payload.name # <<>> /\ Truthy(payload.name[1])
                          THEN Strip(payload.name[1]) ELSE @,
                      ![agent_id].ai_model_id =
                          IF payload.ai_model_id # <<>> THEN payload.ai_model_id[1] ELSE @,
                      ![agent_id].is_enabled =
                          IF payload.is_enabled # <<>> THEN payload.is_enabled[1] ELSE @,
                      ![agent_id].bound = IF payload.bound # <<>> THEN payload.bound[1] ELSE @,
                      ![agent_id].limits =
                          IF payload.config # <<>> THEN payload.config[1].limits ELSE @,
                      ![agent_id].allowed_tools =
                          IF payload.config # <<>> THEN payload.config[1].allowed_tools ELSE @]
             ELSE UNCHANGED agents
          /\ last' = [op |-> "agent.update", tenant |-> t, target |-> agent_id,
                      payload |-> payload, result |-> r]
    /\ UNCHANGED <<aimodels, tools, networks, nodeRows, edgeRows, ifaceRows, chatVars, run, registry>>

\* AgentService.set_enabled
SetAgentEnabled(t, agent_id, enabled) ==
    /\ IF AgentResolves(t, agent_id)
       THEN /\ agents' = [agents EXCEPT ![agent_id].is_enabled = enabled]
            /\ last' = [op |-> "agent.set_enabled", tenant |-> t, target |-> agent_id,
                        payload |-> <<enabled>>, result |-> Ok]
       ELSE /\ UNCHANGED agents
            /\ last' = [op |-> "agent.set_enabled", tenant |-> t, target |-> agent_id,
                        payload |-> <<enabled>>, result |-> NotFoundAgent]
    /\ UNCHANGED <<aimodels, tools, networks, nodeRows, edgeRows, ifaceRows, chatVars, run, registry>>

\* AgentService.validate
ValidateAgentOutcome(t, agent_id) ==
    IF ~AgentResolves(t, agent_id) THEN NotFoundAgent
    ELSE FirstRaise(<<EnsureLlmModel(t, agents[agent_id].ai_model_id, FALSE),
                      EnsureToolsExist(t, agents[agent_id].bound),
                      ValidateConfigSemantics(agents[agent_id].limits)>>)

ValidateAgent(t, agent_id) ==
    /\ last' = [op |-> "agent.validate", tenant |-> t, target |-> agent_id, payload |-> <<>>,
                result |-> ValidateAgentOutcome(t, agent_id)]
    /\ UNCHANGED <<agents, aimodels, tools, networks, nodeRows, edgeRows, ifaceRows, chatVars, run, registry>>

\* AgentService.invoke
InvokeAgent(t, agent_id, tool_overrides) ==
    /\ last' = [op |-> "agent.invoke", tenant |-> t, target |-> agent_id,
                payload |-> tool_overrides, result |-> AgentInvoke(t, agent_id, tool_overrides)]
    /\ UNCHANGED <<agents, aimodels, tools, networks, nodeRows, edgeRows, ifaceRows, chatVars, run, registry>>

\* ------------------------------------------------ AI model configs

\* A JSON value is a tagged tuple: a string, null, a number or a dict.  A dict
\* is a function from its keys; a key is the sequence of the dot-free segments
\* of the key string ("api_key" is <<"api_key">>, "a.b" is <<"a", "b">>), so
\* that joining keys with "." and splitting a path at "." are computed.
Str(s) == <<"str", s>>
Null == <<"null">>
Num(n) == <<"num", n>>
Dict(d) == <<"dict", d>>
IsStr(v) == v[1] = "str"
IsNull(v) == v[1] = "null"
IsDict(v) == v[1] = "dict"

\* REDACTED = "__REDACTED__"
REDACTED == Str("__REDACTED__")
IsRedacted(v) == IsStr(v) /\ v[2] = "__REDACTED__"

\* dict.get(k)
DictGet(d, k) == IF k \in DOMAIN d THEN d[k] ELSE Null

\* Python truthiness of a JSON value
TruthyValue(v) ==
    IF IsNull(v) THEN FALSE
    ELSE IF IsStr(v) THEN v[2] # ""
    ELSE IF IsDict(v) THEN DOMAIN v[2] # {}
    ELSE v[2] # 0

\* str.lower() of the key segments the model uses
LowerSeg(seg) ==
    IF seg = "Authorization" THEN "authorization"
    ELSE IF seg = "API_KEY" THEN "api_key"
    ELSE seg

SecretKeyNames == {"api_key", "authorization"}

\* OpenAIConnector.redact_config
RECURSIVE RedactConfig(_)
RedactConfig(d) ==
    [k \in DOMAIN d |->
        IF Len(k) = 1 /\ LowerSeg(k[1]) \in SecretKeyNames THEN REDACTED
        ELSE IF IsDict(d[k]) THEN Dict(RedactConfig(d[k][2]))
        ELSE d[k]]

\* collect_redacted_paths: each path ".".join(prefix + [k]), kept as the parts
\* that path_str.split(".") gives back
RECURSIVE CollectRedactedPaths(_, _)
CollectRedactedPaths(d, prefix) ==
    UNION {IF IsRedacted(d[k]) THEN {prefix \o k}
           ELSE IF IsDict(d[k]) THEN CollectRedactedPaths(d[k][2], prefix \o k)
           ELSE {} : k \in DOMAIN d}

\* apply_redaction, one path: walk the parts as keys and overwrite the last
RECURSIVE RedactPath(_, _)
RedactPath(d, parts) ==
    IF parts = <<>> \/ <<Head(parts)>> \notin DOMAIN d THEN d
    ELSE IF Len(parts) = 1 THEN [d EXCEPT ![<<Head(parts)>>] = REDACTED]
    ELSE IF IsDict(d[<<Head(parts)>>])
    THEN [d EXCEPT ![<<Head(parts)>>] = Dict(RedactPath(d[<<Head(parts)>>][2], Tail(parts)))]
    ELSE d

\* apply_redaction: every path of redaction_map["secret_paths"]
RECURSIVE ApplyRedaction(_, _)
ApplyRedaction(config, secret_paths) ==
    IF secret_paths = {} THEN config
    ELSE LET path == CHOOSE x \in secret_paths : TRUE
         IN ApplyRedaction(RedactPath(config, path), secret_paths \ {path})

\* a merge that writes every patch value through
RECURSIVE MergeOverwriting(_, _)
MergeOverwriting(dst, src) ==
    [k \in DOMAIN dst \cup DOMAIN src |->
        IF k \notin DOMAIN src THEN dst[k]
        ELSE IF IsDict(src[k]) /\ k \in DOMAIN dst /\ IsDict(dst[k])
        THEN Dict(MergeOverwriting(dst[k][2], src[k][2]))
        ELSE src[k]]

\* merge_partial_config
RECURSIVE MergePartialConfig(_, _)
MergePartialConfig(dst, src) ==
    [k \in DOMAIN dst \cup DOMAIN src |->
        IF k \notin DOMAIN src THEN dst[k]
        ELSE IF IsDict(src[k]) /\ k \in DOMAIN dst /\ IsDict(dst[k])
        THEN Dict(MergePartialConfig(dst[k][2], src[k][2]))
        ELSE IF IsRedacted(src[k]) /\ ~IsNull(DictGet(dst, k)) THEN dst[k]
        ELSE src[k]]

\* "azure.com" in base_url, for the URLs the model uses
AzureUrls == {"https://x.openai.azure.com"}

\* OpenAIConnector.validate_config
ValidateConfig(d) ==
    LET api_key == DictGet(d, <<"api_key">>)
        base_url == DictGet(d, <<"base_url">>)
        default_model == DictGet(d, <<"default_model">>)
        api_version == DictGet(d, <<"api_version">>)
    IN IF ~TruthyValue(api_key) \/ ~IsStr(api_key)
       THEN Raise("AIModelValidationError", "'api_key' is required and must be a string")
       ELSE IF ~IsNull(base_url) /\ ~IsStr(base_url)
       THEN Raise("AIModelValidationError", "'base_url' must be a string if provided")
       ELSE IF ~IsNull(default_model) /\ ~IsStr(default_model)
       THEN Raise("AIModelValidationError", "'default_model' must be a string if provided")
       ELSE IF IsStr(base_url) /\ base_url[2] \in AzureUrls /\ ~TruthyValue(api_version)
       THEN Raise("AIModelValidationError", "'api_version' is required when using Azure OpenAI base_url")
       ELSE Ok

\* encrypt_config / decrypt_config: a token only decrypt_config opens
EncryptConfig(config) == <<"fernet", config>>
DecryptConfig(token) == token[2]

KeyOnly(v) == [k \in {<<"api_key">>} |-> v]

\* ------------------------------------------------ AI model service actions

ModelIdOrder == <<"m1", "m2">>
UnusedModelIds == LET Free(m) == m \notin DOMAIN aimodels IN SelectSeq(ModelIdOrder, Free)

NoConfig == [raised |-> "none", detail |-> "ok", config |-> <<>>]
ModelRaise(kind, detail) == [NoConfig EXCEPT !.raised = kind, !.detail = detail]

\* AIModelService._to_response_dict: the config of the response
ResponseConfig(row) == ApplyRedaction(DecryptConfig(row.config_encrypted), row.secret_paths)

\* uq_ai_model_tenant_name
ModelNameTaken(t, name) ==
    \E m \in DOMAIN aimodels : aimodels[m].tenant = t /\ aimodels[m].name = name

\* AIModelService.create: the row it would store
NewModelRow(t, payload) ==
    [tenant |-> t, name |-> Strip(payload.name), deleted |-> FALSE,
     is_enabled |-> payload.is_enabled, category |-> payload.category, type |-> payload.type,
     config_encrypted |-> EncryptConfig(payload.config),
     secret_paths |-> CollectRedactedPaths(RedactConfig(payload.config), <<>>)]

\* AIModelService.create
CreateModel(t, payload) ==
    /\ LET v == ValidateConfig(payload.config)
           r == IF payload.type \notin ConnectorTypes
                THEN ModelRaise("AIModelUnknownType", "Unknown AI model type")
                ELSE IF v.raised # "none" THEN ModelRaise(v.raised, v.detail)
                ELSE IF ModelNameTaken(t, Strip(payload.name))
                THEN ModelRaise("AIModelConflict", "An AI model with this name already exists in the tenant")
                ELSE [NoConfig EXCEPT !.config = ResponseConfig(NewModelRow(t, payload))]
           id == IF UnusedModelIds # <<>> THEN Head(UnusedModelIds) ELSE NoId
       IN /\ r.raised = "none" => id # NoId
          /\ IF r.raised = "none"
             THEN aimodels' = [m \in DOMAIN aimodels \cup {id} |->
                                 IF m = id THEN NewModelRow(t, payload) ELSE aimodels[m]]
             ELSE UNCHANGED aimodels
          /\ last' = [op |-> "model.create", tenant |-> t,
                      target |-> IF r.raised = "none" THEN id ELSE NoId,
                      payload |-> payload, result |-> r]
    /\ UNCHANGED <<agents, tools, networks, nodeRows, edgeRows, ifaceRows, chatVars, run, registry>>

\* AIModelService.get
GetModel(t, model_id) ==
    /\ last' = [op |-> "model.get", tenant |-> t, target |-> model_id, payload |-> <<>>,
                result |-> IF ModelResolves(t, model_id)
                           THEN [NoConfig EXCEPT !.config = ResponseConfig(aimodels[model_id])]
                           ELSE ModelRaise("AIModelNotFound", "AI Model not found")]
    /\ UNCHANGED <<agents, aimodels, tools, networks, nodeRows, edgeRows, ifaceRows, chatVars, run, registry>>

\* AIModelService.update: the row after the patch; payload.is_enabled and
\* payload.config are <<>> when absent (or None), <<v>> otherwise
PatchedModelRow(row, payload) ==
    LET merged == MergePartialConfig(DecryptConfig(row.config_encrypted), payload.config[1])
        enabled == [row EXCEPT !.is_enabled = IF payload.is_enabled # <<>> THEN payload.is_enabled[1] ELSE @]
    IN IF payload.config = <<>> THEN enabled
       ELSE [enabled EXCEPT !.config_encrypted = EncryptConfig(merged),
                            !.secret_paths = CollectRedactedPaths(RedactConfig(merged), <<>>)]

\* AIModelService.update
UpdateModel(t, model_id, payload) ==
    /\ LET v == IF payload.config = <<>> THEN Ok
                ELSE ValidateConfig(MergePartialConfig(
                         DecryptConfig(aimodels[model_id].config_encrypted), payload.config[1]))
           r == IF ~ModelResolves(t, model_id)
                THEN ModelRaise("AIModelNotFound", "AI Model not found")
                ELSE IF aimodels[model_id].type \notin ConnectorTypes
                THEN ModelRaise("AIModelUnknownType", "Unknown AI model type")
                ELSE IF v.raised # "none" THEN ModelRaise(v.raised, v.detail)
                ELSE [NoConfig EXCEPT
                         !.config = ResponseConfig(PatchedModelRow(aimodels[model_id], payload))]
       IN /\ IF r.raised = "none"
             THEN aimodels' = [aimodels EXCEPT
                                 ![model_id] = PatchedModelRow(aimodels[model_id], payload)]
             ELSE UNCHANGED aimodels
          /\ last' = [op |-> "model.update", tenant |-> t, target |-> model_id,
                      payload |-> payload, result |-> r]
    /\ UNCHANGED <<agents, tools, networks, nodeRows, edgeRows, ifaceRows, chatVars, run, registry>>

\* AIModelService.delete
DeleteModel(t, model_id) ==
    /\ IF ModelResolves(t, model_id)
       THEN aimodels' = [aimodels EXCEPT ![model_id].deleted = TRUE]
       ELSE UNCHANGED aimodels
    /\ last' = [op |-> "model.delete", tenant |-> t, target |-> model_id, payload |-> <<>>,
                result |-> IF ModelResolves(t, model_id) THEN NoConfig
                           ELSE ModelRaise("AIModelNotFound", "AI Model not found")]
    /\ UNCHANGED <<agents, tools, networks, nodeRows, edgeRows, ifaceRows, chatVars, run, registry>>

\* ------------------------------------------------ tool service actions

\* A tool row keeps tenant, deleted, name, is_enabled, kind, provider, the
\* config keys max_rows, query_timeout_s, top_k (<<>> when the key is absent)
\* and allowed_predicates, and whether its bindings hold the resources its
\* kind requires (primary).  create and update accept only bindings that do.
NoToolConfig ==
    [max_rows |-> <<>>, query_timeout_s |-> <<>>, top_k |-> <<>>, allowed_predicates |-> {}]

LiveTool(t, kind) ==
    [tenant |-> t, deleted |-> FALSE, name |-> <<kind>>, is_enabled |-> TRUE, kind |-> kind,
     provider |-> NoId, config |-> NoToolConfig, primary |-> TRUE]

DefaultMaxRows == 500
DefaultQueryTimeout == 15

Min(a, b) == IF a <= b THEN a ELSE b
Max(a, b) == IF a >= b THEN a ELSE b

\* a limit computation that passes the caller's limit through
HandedLimitUnclamped(config, payload) ==
    IF payload.limit = <<>>
    THEN (IF config.max_rows = <<>> THEN DefaultMaxRows ELSE config.max_rows[1])
    ELSE payload.limit[1]

\* SqlSelectAdapter.invoke: the limit of query_spec
HandedLimit(config, payload) ==
    LET max_rows == IF config.max_rows = <<>> THEN DefaultMaxRows ELSE config.max_rows[1]
    IN IF payload.limit = <<>> THEN max_rows ELSE Min(payload.limit[1], max_rows)

\* SqlSelectAdapter.invoke: the timeout_s of query_spec
HandedTimeout(config) ==
    LET query_timeout_s == IF config.query_timeout_s = <<>> THEN DefaultQueryTimeout
                           ELSE config.query_timeout_s[1]
    IN Min(Max(query_timeout_s, 1), 60)

\* What a tool invocation did: the error raised, whether adapter.invoke was
\* entered (adapter), and the query_spec handed to the dataset layer (handed).
NoQuery == [raised |-> "none", detail |-> "ok", adapter |-> FALSE, handed |-> FALSE,
            limit |-> 0, timeout_s |-> 0]
ToolRaise(kind, detail) == [NoQuery EXCEPT !.raised = kind, !.detail = detail]

\* SqlSelectAdapter.invoke: the query_spec handed to DatasetService.sql_select,
\* or the error raised before it.  payload.limit is <<>> (no limit) or <<n>>;
\* payload.where is the set of columns the where dict names.
SqlSelectInvoke(config, payload) ==
    IF config.allowed_predicates # {} /\ payload.where \ config.allowed_predicates # {}
    THEN [ToolRaise("AgentToolBindingInvalid", "Predicate on disallowed column")
             EXCEPT !.adapter = TRUE]
    ELSE [NoQuery EXCEPT !.adapter = TRUE, !.handed = TRUE,
                         !.limit = HandedLimit(config, payload),
                         !.timeout_s = HandedTimeout(config)]

\* SqlSelectAdapter.validate_bindings / VectorSimilaritySearchAdapter.validate_bindings
RequiredBindings == "requires a dataset binding"
ValidateBindings(primary) ==
    IF primary THEN Ok ELSE Raise("AgentToolBindingInvalid", RequiredBindings)

\* AgentToolService.invoke
ToolInvoke(t, tool_id, payload) ==
    IF ~ToolResolves(t, tool_id) THEN ToolRaise("AgentToolNotFound", "Agent Tool not found")
    ELSE IF ~tools[tool_id].is_enabled THEN ToolRaise("AgentToolDisabled", "Agent Tool is disabled")
    ELSE IF RegistryGet(tools[tool_id].kind, tools[tool_id].provider) = NoAdapter
    THEN ToolRaise("AgentToolAdapterNotFound", "No adapter registered")
    ELSE IF ValidateBindings(tools[tool_id].primary).raised # "none"
    THEN ToolRaise("AgentToolBindingInvalid", RequiredBindings)
    ELSE IF tools[tool_id].kind = "sql.select"
    THEN SqlSelectInvoke(tools[tool_id].config, payload)
    ELSE [NoQuery EXCEPT !.adapter = TRUE]

\* the payload SqlSelectAdapter.as_langchain_tool builds from the arguments of
\* a call: the arguments that are None (<<>>) are left out
WrapperPayload(args) ==
    [limit |-> args.limit, where |-> IF args.where = <<>> THEN {} ELSE args.where[1]]

\* a wrapper that hands its payload to the adapter itself
LangchainToolCallDirect(t, tool_id, args) ==
    IF tools[tool_id].kind = "sql.select"
    THEN SqlSelectInvoke(tools[tool_id].config, WrapperPayload(args))
    ELSE [NoQuery EXCEPT !.adapter = TRUE]

\* the _call of the tool as_langchain_tool returns: svc.invoke(tool_id, payload)
LangchainToolCall(t, tool_id, args) ==
    IF tools[tool_id].kind = "sql.select"
    THEN ToolInvoke(t, tool_id, WrapperPayload(args))
    ELSE ToolInvoke(t, tool_id, args)

\* the model loop of the agent invoked last calls one of the tools it was given
AgentToolCall(tool_id, args) ==
    /\ last.op = "agent.invoke"
    /\ last.result.ran
    /\ tool_id \in Range(last.result.exposed)
    /\ last' = [op |-> "agent.tool_call", tenant |-> last.tenant, target |-> tool_id,
                payload |-> args, result |-> LangchainToolCall(last.tenant, tool_id, args)]
    /\ UNCHANGED <<agents, aimodels, tools, networks, nodeRows, edgeRows, ifaceRows, chatVars, run, registry>>

InvokeTool(t, tool_id, payload) ==
    /\ last' = [op |-> "tool.invoke", tenant |-> t, target |-> tool_id, payload |-> payload,
                result |-> ToolInvoke(t, tool_id, payload)]
    /\ UNCHANGED <<agents, aimodels, tools, networks, nodeRows, edgeRows, ifaceRows, chatVars, run, registry>>

NotFoundTool == Raise("AgentToolNotFound", "Agent Tool not found")

\* AgentToolAdapter.validate_config: the base method returns None, and neither
\* SqlSelectAdapter nor VectorSimilaritySearchAdapter overrides it
AdapterValidateConfig(adapter, config) == Ok

\* AgentToolService.update with the keys is_enabled, bindings and config (<<>>
\* when absent; bindings <<b>> says whether they hold the required
\* resources)
UpdateToolOutcome(t, tool_id, payload) ==
    IF ~ToolResolves(t, tool_id) THEN NotFoundTool
    ELSE IF (payload.bindings # <<>> \/ payload.config # <<>>)
            /\ RegistryGet(tools[tool_id].kind, tools[tool_id].provider) = NoAdapter
    THEN Raise("AgentToolAdapterNotFound", "No adapter registered")
    ELSE IF payload.bindings # <<>> /\ ValidateBindings(payload.bindings[1]).raised # "none"
    THEN Raise("AgentToolBindingInvalid", RequiredBindings)
    ELSE IF payload.config # <<>>
    THEN AdapterValidateConfig(RegistryGet(tools[tool_id].kind, tools[tool_id].provider),
                               payload.config[1])
    ELSE Ok

UpdateTool(t, tool_id, payload) ==
    /\ IF UpdateToolOutcome(t, tool_id, payload).raised = "none"
       THEN tools' = [tools EXCEPT
                  ![tool_id].is_enabled =
                      IF payload.is_enabled # <<>> THEN payload.is_enabled[1] ELSE @,
                  ![tool_id].primary =
                      IF payload.bindings # <<>> THEN payload.bindings[1] ELSE @,
                  ![tool_id].config = IF payload.config # <<>> THEN payload.config[1] ELSE @]
       ELSE UNCHANGED tools
    /\ last' = [op |-> "tool.update", tenant |-> t, target |-> tool_id,
                payload |-> payload, result |-> UpdateToolOutcome(t, tool_id, payload)]
    /\ UNCHANGED <<agents, aimodels, networks, nodeRows, edgeRows, ifaceRows, chatVars, run, registry>>

\* AgentToolService.delete (soft delete)
DeleteTool(t, tool_id) ==
    /\ IF ToolResolves(t, tool_id)
       THEN /\ tools' = [tools EXCEPT ![tool_id].deleted = TRUE]
            /\ last' = [op |-> "tool.delete", tenant |-> t, target |-> tool_id,
                        payload |-> <<>>, result |-> Ok]
       ELSE /\ UNCHANGED tools
            /\ last' = [op |-> "tool.delete", tenant |-> t, target |-> tool_id,
                        payload |-> <<>>, result |-> NotFoundTool]
    /\ UNCHANGED <<agents, aimodels, networks, nodeRows, edgeRows, ifaceRows, chatVars, run, registry>>

\* AgentToolService.set_enabled
SetToolEnabled(t, tool_id, enabled) ==
    /\ IF ToolResolves(t, tool_id)
       THEN /\ tools' = [tools EXCEPT ![tool_id].is_enabled = enabled]
            /\ last' = [op |-> "tool.set_enabled", tenant |-> t, target |-> tool_id,
                        payload |-> <<enabled>>, result |-> Ok]
       ELSE /\ UNCHANGED tools
            /\ last' = [op |-> "tool.set_enabled", tenant |-> t, target |-> tool_id,
                        payload |-> <<enabled>>, result |-> NotFoundTool]
    /\ UNCHANGED <<agents, aimodels, networks, nodeRows, edgeRows, ifaceRows, chatVars, run, registry>>

ToolIdOrder == <<"T1", "T2">>
UnusedToolIds == SelectSeq(ToolIdOrder, LAMBDA x : x \notin DOMAIN tools)

\* uq_agent_tool_tenant_name
ToolNameTaken(t, name) ==
    \E x \in DOMAIN tools : tools[x].tenant = t /\ tools[x].name = name

\* AgentToolService.create up to the commit: the error raised, if any.  The
\* payload holds name, kind (one of the two literals of AgentToolBase, which
\* strip() leaves alone), provider, is_enabled, config and whether the
\* bindings hold the resources the kind requires (primary)
CreateToolOutcome(t, payload) ==
    IF RegistryGet(payload.kind, payload.provider) = NoAdapter
    THEN Raise("AgentToolAdapterNotFound", "No adapter registered")
    ELSE IF AdapterValidateConfig(RegistryGet(payload.kind, payload.provider),
                                  payload.config).raised # "none"
    THEN Raise("AgentToolConfigInvalid", "config")
    ELSE IF ValidateBindings(payload.primary).raised # "none"
    THEN Raise("AgentToolBindingInvalid", RequiredBindings)
    ELSE IF ToolNameTaken(t, Strip(payload.name))
    THEN Raise("AgentToolConflict", "A tool with this name already exists in the tenant")
    ELSE Ok

\* AgentToolService.create
CreateTool(t, payload) ==
    /\ UnusedToolIds # <<>>
    /\ LET id == Head(UnusedToolIds)
       IN /\ IF CreateToolOutcome(t, payload).raised = "none"
             THEN tools' = [x \in DOMAIN tools \cup {id} |->
                              IF x = id
                              THEN [tenant |-> t, deleted |-> FALSE,
                                    name |-> Strip(payload.name),
                                    is_enabled |-> payload.is_enabled,
                                    kind |-> payload.kind,
                                    provider |-> payload.provider,
                                    config |-> payload.config, primary |-> payload.primary]
                              ELSE tools[x]]
             ELSE UNCHANGED tools
          /\ last' = [op |-> "tool.create", tenant |-> t,
                      target |-> IF CreateToolOutcome(t, payload).raised = "none" THEN id ELSE NoId,
                      payload |-> payload, result |-> CreateToolOutcome(t, payload)]
    /\ UNCHANGED <<agents, aimodels, networks, nodeRows, edgeRows, ifaceRows, chatVars, run, registry>>

\* ------------------------------------------------ specification of the graph checks

\* One network is stored at a time; its spec ranges over graphs of up to
\* MaxNodes nodes and MaxEdges edges (edges may loop on a node, or name
\* the key "X" no node has), the four network types and the swarm settings.
MaxNodes == 3
MaxEdges == 3

NetworkTypes == {"standalone", "swarm", "supervised", "custom"}

\* the position of a key in KeyOrder
KeyPos(k) == CHOOSE i \in 1..Len(KeyOrder) : KeyOrder[i] = k

GraphAgentOf(i) == IF i % 2 = 1 THEN "a1" ELSE "a2"

GraphNode(key, i) == [node_key |-> key, agent_id |-> GraphAgentOf(i), child_network_id |-> NoId]

\* node lists: the first n keys, in ascending or descending order
GraphNodeLists ==
    UNION {{[i \in 1..n |-> GraphNode(KeyOrder[i], i)],
            [i \in 1..n |-> GraphNode(KeyOrder[n + 1 - i], i)]} : n \in 1..MaxNodes}

Edge(s, d) == [source_node_key |-> s, target_node_key |-> d]
EdgesOver(keys) == {Edge(s, d) : s \in keys, d \in keys}
EdgeRank(e) == KeyPos(e.source_node_key) * (Len(KeyOrder) + 1) + KeyPos(e.target_node_key)

\* edge lists over the keys, up to n distinct edges, listed in key order
EdgeLists(keys, n) ==
    UNION {{es \in [1..m -> EdgesOver(keys)] :
              \A i \in 1..(m - 1) : EdgeRank(es[i]) < EdgeRank(es[i + 1])} : m \in 0..n}

NoSwarmCfg == [default_active_agent |-> NoneText, handoff_policy |-> NoneText]

DefaultActiveTexts == {NoneText, <<>>, <<"A">>, <<"A", " ">>, <<"X">>}
HandoffPolicyTexts == {NoneText, <<"edges">>, <<"allow_all">>, <<" ", "allow_all">>, <<"bogus">>}
SwarmCfgs == [default_active_agent : DefaultActiveTexts, handoff_policy : HandoffPolicyTexts]

\* every setting for a swarm; for the other types, which never read them, one
\* pair that a swarm would be refused for
SwarmCfgsOf(ty) ==
    IF ty = "swarm" THEN SwarmCfgs
    ELSE {[default_active_agent |-> <<"X">>, handoff_policy |-> <<"bogus">>]}

GraphSpecs ==
    {[type |-> ty, nodes |-> ns, edges |-> es, swarm |-> NoSwarmCfg, interface |-> NoId] :
        ty \in NetworkTypes,
        <<ns, es>> \in UNION {{<<ns, es>> : es \in EdgeLists(Range([i \in 1..Len(ns) |-> ns[i].node_key]), MaxEdges)} :
                                ns \in GraphNodeLists}}
    \cup
    UNION {{[type |-> ty, nodes |-> ns, edges |-> es, swarm |-> cfg, interface |-> NoId] :
              cfg \in SwarmCfgsOf(ty),
              <<ns, es>> \in UNION {{<<ns, es>> : es \in EdgeLists(Range([i \in 1..Len(ns) |-> ns[i].node_key]) \cup {"X"}, 1)} :
                                      ns \in GraphNodeLists}} : ty \in NetworkTypes}

GraphPayloads ==
    {[slug |-> <<"s">>, version |-> <<"1">>, is_enabled |-> TRUE, spec |-> sp] : sp \in GraphSpecs}

LiveAgent(t, m, name) ==
    [tenant |-> t, name |-> name, deleted |-> FALSE, is_enabled |-> TRUE, ai_model_id |-> m,
     bound |-> <<>>, allowed_tools |-> NoneList, limits |-> DefaultLimits]

LlmModel(t) ==
    [tenant |-> t, name |-> <<"gpt">>, deleted |-> FALSE, is_enabled |-> TRUE, category |-> "llm",
     type |-> "llm.openai", config_encrypted |-> EncryptConfig(KeyOnly(Str("sk-1"))),
     secret_paths |-> {<<"api_key">>}]

\* a tenant with an LLM model and two agents, and no network yet; the network
\* is created first, and agent a1, which every network references, is
\* deleted under it afterwards
InitGraph ==
    /\ agents = [a \in {"a1", "a2"} |-> LiveAgent("t1", "m1", <<a>>)]
    /\ aimodels = [m \in {"m1"} |-> LlmModel("t1")]
    /\ tools = <<>>
    /\ networks = <<>>
    /\ nodeRows = {}
    /\ edgeRows = {}
    /\ ifaceRows = {}
    /\ last = NoCall
    /\ NoChat
    /\ registry = Registered

EnableToggles == {[is_enabled |-> <<b>>, spec |-> <<>>] : b \in BOOLEAN}

NextGraph ==
    \/ DOMAIN networks = {} /\ \E payload \in GraphPayloads : CreateNetwork("t1", payload)
    \/ \E payload \in EnableToggles : UpdateNetwork("t1", "n1", payload)
    \/ DOMAIN networks # {} /\ DeleteAgent("t1", "a1")
    \/ ValidateNetworkCall("t1", "n1")
    \/ InvokeNetworkCall("t1", "n1", NoOverrides)

SpecGraph == InitGraph /\ [][NextGraph]_vars

\* ------------------------------------------------ properties of the graph checks

\* the edge relation of a spec, and what can be reached along it from a set of keys
EdgeRel(spec) ==
    {<<spec.edges[i].source_node_key, spec.edges[i].target_node_key>> : i \in 1..Len(spec.edges)}

RECURSIVE ReachableFrom(_, _)
ReachableFrom(R, S) ==
    LET step == S \cup {p[2] : p \in {q \in R : q[1] \in S}}
    IN IF step = S THEN S ELSE ReachableFrom(R, step)

\* some key is reachable from itself along one or more edges
HasDirectedCycle(spec) ==
    \E p \in EdgeRel(spec) : p[1] \in ReachableFrom(EdgeRel(spec), {p[2]})

AllNodesReferenceLiveAgents(t, spec) ==
    \A i \in 1..Len(spec.nodes) :
        /\ spec.nodes[i].child_network_id = NoId
        /\ AgentResolves(t, spec.nodes[i].agent_id)

EdgesNameNodeKeys(spec) ==
    \A p \in EdgeRel(spec) : p[1] \in NodeKeysOf(spec) /\ p[2] \in NodeKeysOf(spec)

SwarmSettingsValid(spec) ==
    /\ \/ ~Truthy(spec.swarm.default_active_agent)
       \/ Strip(spec.swarm.default_active_agent) = <<>>
       \/ \E k \in NodeKeysOf(spec) : Strip(spec.swarm.default_active_agent) = <<k>>
    /\ \/ ~Truthy(spec.swarm.handoff_policy)
       \/ Strip(spec.swarm.handoff_policy) \in {<<"edges">>, <<"allow_all">>}

\* the last call was op on a network the caller can see
LastOnNetwork(op) == last.op = op /\ NetworkResolves(last.tenant, last.target)
LastSpec == networks[last.target].spec

\* C1 (as amended): validate on a stored network of a type other than swarm
\* raises AgentNetworkInvalid whenever the edges contain a directed cycle; on a
\* swarm network with a directed cycle it does not raise, provided every node
\* references an existing agent, every edge names node keys of the spec and
\* the swarm settings are valid.
C1_CycleRejectedUnlessSwarm ==
    LastOnNetwork("network.validate") /\ HasDirectedCycle(LastSpec) =>
        /\ LastSpec.type # "swarm" => last.result.raised = "AgentNetworkInvalid"
        /\ ( /\ LastSpec.type = "swarm"
             /\ AllNodesReferenceLiveAgents(last.tenant, LastSpec)
             /\ EdgesNameNodeKeys(LastSpec)
             /\ SwarmSettingsValid(LastSpec) ) => last.result.raised = "none"

\* C1 as written: validate on a swarm network with a directed cycle among its
\* nodes, all nodes referencing existing agents, does not raise (whatever its
\* swarm settings).
C1_AsWritten ==
    LastOnNetwork("network.validate") /\ HasDirectedCycle(LastSpec) =>
        /\ LastSpec.type # "swarm" => last.result.raised = "AgentNetworkInvalid"
        /\ ( /\ LastSpec.type = "swarm"
             /\ EdgesNameNodeKeys(LastSpec)
             /\ AllNodesReferenceLiveAgents(last.tenant, LastSpec) ) => last.result.raised = "none"

ThreeCycle == <<Edge("A", "B"), Edge("B", "C"), Edge("C", "A")>>

\* validate has passed a swarm network whose edges are A->B, B->C, C->A
C1_Witness ==
    /\ LastOnNetwork("network.validate")
    /\ LastSpec.type = "swarm"
    /\ LastSpec.edges = ThreeCycle
    /\ last.result.raised = "none"

\* validate has rejected a supervised network with the same edges
C1_WitnessRejected ==
    /\ LastOnNetwork("network.validate")
    /\ LastSpec.type = "supervised"
    /\ LastSpec.edges = ThreeCycle
    /\ last.result = Raise("AgentNetworkInvalid", "Cycle detected in network edges")

\* C4: in a swarm invocation no node is offered a handoff tool whose
\* destination is that same node, whatever the handoff policy and the edges.
C4_NoSelfHandoff ==
    LastOnNetwork("network.invoke") /\ LastSpec.type = "swarm" =>
        \A i \in 1..Len(last.result.handoff) :
            LastSpec.nodes[i].node_key \notin Range(last.result.handoff[i])

\* a swarm node was built with a handoff tool to itself
C4_Witness ==
    /\ LastOnNetwork("network.invoke")
    /\ LastSpec.type = "swarm"
    /\ \E i \in 1..Len(last.result.built) :
          LastSpec.nodes[i].node_key \in Range(last.result.handoff[i])

\* C12: the handoff tools built for a swarm node are one transfer tool per
\* permitted destination and no other: under the policy edges (also when no
\* policy is given) the destinations are the targets of the edges whose source
\* is that node; under allow_all they are all the other nodes of the spec.
C12_HandoffToolsPerPolicy ==
    LastOnNetwork("network.invoke") /\ LastSpec.type = "swarm" =>
        /\ last.result.raised = "none" => Len(last.result.handoff) = Len(LastSpec.nodes)
        /\ \A i \in 1..Len(last.result.handoff) :
              LET key == LastSpec.nodes[i].node_key
                  dests == last.result.handoff[i]
                  policy == LastSpec.swarm.handoff_policy
              IN /\ \A a, b \in 1..Len(dests) : dests[a] = dests[b] => a = b
                 /\ policy \in {NoneText, <<>>, <<"edges">>} =>
                       Range(dests) = {e.target_node_key :
                                        e \in {x \in Range(LastSpec.edges) : x.source_node_key = key}}
                 /\ policy = <<"allow_all">> => Range(dests) = NodeKeysOf(LastSpec) \ {key}

\* under the policy edges, with the edge A -> B only, A was built with the
\* tool to B and B with none
C12_Witness ==
    /\ LastOnNetwork("network.invoke")
    /\ LastSpec.type = "swarm"
    /\ LastSpec.swarm.handoff_policy = <<"edges">>
    /\ last.result.raised = "none"
    /\ LastSpec.edges = <<Edge("A", "B")>>
    /\ [i \in 1..Len(LastSpec.nodes) |-> LastSpec.nodes[i].node_key] = <<"A", "B">>
    /\ last.result.handoff = <<(<<"B">>), <<>>>>

\* under allow_all each of two nodes was built with the tool to the other
C12_WitnessAllowAll ==
    /\ LastOnNetwork("network.invoke")
    /\ LastSpec.type = "swarm"
    /\ LastSpec.swarm.handoff_policy = <<"allow_all">>
    /\ last.result.raised = "none"
    /\ Len(LastSpec.nodes) = 2
    /\ \A i \in 1..2 : Len(last.result.handoff[i]) = 1

\* C5: for every stored spec on which validate would raise, invoke raises
\* before any agent is built or called.
C5_InvokeValidatesFirst ==
    LastOnNetwork("network.invoke") /\ ValidateNetwork(last.tenant, last.target).raised # "none" =>
        /\ last.result.raised # "none"
        /\ last.result.built = <<>>
        /\ last.result.called = <<>>

\* invoke ran the agent of a network that validate rejects
C5_Witness ==
    /\ LastOnNetwork("network.invoke")
    /\ ValidateNetwork(last.tenant, last.target).raised = "AgentNetworkInvalid"
    /\ last.result.raised = "none"
    /\ last.result.called # <<>>

\* C6: invoke on an enabled supervised or custom network executes no node and
\* fails with a not-supported error of a kind other than the invalid-spec one.
C6_NotSupportedIsItsOwnKind ==
    /\ LastOnNetwork("network.invoke")
    /\ networks[last.target].is_enabled
    /\ LastSpec.type \in {"supervised", "custom"}
    => /\ last.result.called = <<>>
       /\ last.result.built = <<>>
       /\ last.result.raised \notin {"none", "AgentNetworkInvalid"}

\* invoke of an enabled supervised network raised the invalid-spec error
C6_Witness ==
    /\ LastOnNetwork("network.invoke")
    /\ networks[last.target].is_enabled
    /\ LastSpec.type = "supervised"
    /\ last.result.raised = "AgentNetworkInvalid"
    /\ last.result.detail = "Network type not supported in this iteration"
    /\ ValidateNetwork(last.tenant, last.target).raised = "none"

\* ------------------------------------------------ specification of network create / update / delete

Node(key, agent_id, child_network_id) ==
    [node_key |-> key, agent_id |-> agent_id, child_network_id |-> child_network_id]

CrudSpec(ns, es, interface) ==
    [type |-> "supervised", nodes |-> ns, edges |-> es, swarm |-> NoSwarmCfg, interface |-> interface]

\* specs of create and update payloads: a node referencing the caller's agent
\* a1, the network n1, or two nodes with an edge and an interface; and, with
\* the same edge and interface, a node referencing the other tenant's agent
\* a2, both an agent and a network, neither, and two nodes with the same key
CrudSpecs ==
    {CrudSpec(<<Node("A", "a1", NoId)>>, <<>>, NoId),
     CrudSpec(<<Node("A", NoId, "n1")>>, <<>>, NoId),
     CrudSpec(<<Node("A", "a1", NoId), Node("B", "a1", NoId)>>, <<Edge("A", "B")>>, "interface"),
     CrudSpec(<<Node("A", "a2", NoId)>>, <<Edge("A", "B")>>, "interface"),
     CrudSpec(<<Node("A", "a1", "n1")>>, <<Edge("A", "B")>>, "interface"),
     CrudSpec(<<Node("A", NoId, NoId)>>, <<Edge("A", "B")>>, "interface"),
     CrudSpec(<<Node("A", "a1", NoId), Node("B", NoId, NoId)>>, <<Edge("A", "B")>>, "interface"),
     CrudSpec(<<Node("A", "a1", NoId), Node("A", "a1", NoId)>>, <<Edge("A", "B")>>, "interface")}

\* versions as the caller writes them; the third differs from the first by a trailing blank
PayloadVersions == {<<"1">>, <<"2">>, <<"1", " ">>}

CrudCreatePayloads(t) ==
    IF t = "t1"
    THEN {[slug |-> <<"s">>, version |-> v, is_enabled |-> TRUE, spec |-> sp] :
            v \in PayloadVersions, sp \in CrudSpecs}
    ELSE {[slug |-> <<"s">>, version |-> v, is_enabled |-> TRUE,
           spec |-> CrudSpec(<<Node("A", "a2", NoId)>>, <<>>, NoId)] : v \in {<<"1">>}}

\* update payloads: a new spec, or no key at all
CrudUpdatePayloads ==
    {[is_enabled |-> <<>>, spec |-> <<sp>>] : sp \in CrudSpecs}
    \cup {[is_enabled |-> <<>>, spec |-> <<>>]}

\* two tenants, each with an LLM model and an agent, and no network yet.
\* Tenant t1 creates, updates, deletes and validates networks; tenant t2 only
\* creates one under the same slug and version.
Init ==
    /\ agents = [a \in {"a1", "a2"} |-> LiveAgent(IF a = "a1" THEN "t1" ELSE "t2",
                                                  IF a = "a1" THEN "m1" ELSE "m2", <<a>>)]
    /\ aimodels = [m \in {"m1", "m2"} |-> LlmModel(IF m = "m1" THEN "t1" ELSE "t2")]
    /\ tools = <<>>
    /\ networks = <<>>
    /\ nodeRows = {}
    /\ edgeRows = {}
    /\ ifaceRows = {}
    /\ last = NoCall
    /\ NoChat
    /\ registry = Registered

Next ==
    \/ \E t \in Tenants : \E payload \in CrudCreatePayloads(t) : CreateNetwork(t, payload)
    \/ \E payload \in CrudUpdatePayloads : UpdateNetwork("t1", "n1", payload)
    \/ \E n \in NetIds : DeleteNetwork("t1", n)
    \/ \E n \in NetIds : ValidateNetworkCall("t1", n)

Spec == Init /\ [][Next]_vars

\* ------------------------------------------------ properties of network create / update

XorViolated(node) == (node.agent_id # NoId) = (node.child_network_id # NoId)
HasXorViolation(spec) == \E i \in 1..Len(spec.nodes) : XorViolated(spec.nodes[i])

\* C2: create, update with a spec, and validate raise AgentNetworkInvalid when
\* a node of the spec has both agent_id and child_network_id or neither; the
\* create then adds no network, node, edge or interface row, and the update
\* leaves the stored network as it was.
C2_XorNodeRejected ==
    [][ /\ (last'.op = "network.create" /\ HasXorViolation(last'.payload.spec))
            => (last'.result.raised = "AgentNetworkInvalid" /\ UNCHANGED netVars)
        /\ ( /\ last'.op = "network.update"
             /\ NetworkResolves(last'.tenant, last'.target)
             /\ last'.payload.spec # <<>>
             /\ HasXorViolation(last'.payload.spec[1]) )
            => (last'.result.raised = "AgentNetworkInvalid" /\ UNCHANGED netVars)
        /\ \A sp \in CrudSpecs :
              HasXorViolation(sp) => ValidateSpec("t1", sp).raised = "AgentNetworkInvalid"
      ]_vars

XorDetail == "Node must reference exactly one of agent_id or child_network_id"

\* a create whose only fault is a node with both references was rejected for it,
\* next to a stored network, and an update with a node with neither likewise
C2_Witness ==
    /\ last.op = "network.create"
    /\ last.payload.spec.nodes = <<Node("A", "a1", "n1")>>
    /\ last.payload.spec.edges # <<>>
    /\ last.result = Raise("AgentNetworkInvalid", XorDetail)
    /\ NetworkResolves("t1", "n1")

C2_WitnessUpdate ==
    /\ last.op = "network.update"
    /\ NetworkResolves(last.tenant, last.target)
    /\ last.payload.spec # <<>>
    /\ last.payload.spec[1].nodes = <<Node("A", "a1", NoId), Node("B", NoId, NoId)>>
    /\ last.result = Raise("AgentNetworkInvalid", XorDetail)

\* every node references exactly one thing, which the caller can see, and no
\* two nodes share a key
PayloadNodesValid(t, spec) ==
    /\ \A i \in 1..Len(spec.nodes) :
          \/ spec.nodes[i].child_network_id = NoId /\ AgentResolves(t, spec.nodes[i].agent_id)
          \/ spec.nodes[i].agent_id = NoId /\ NetworkResolves(t, spec.nodes[i].child_network_id)
    /\ \A i, j \in 1..Len(spec.nodes) : spec.nodes[i].node_key = spec.nodes[j].node_key => i = j

CreatedRow(t, payload, id) ==
    /\ id \notin DOMAIN networks
    /\ DOMAIN networks' = DOMAIN networks \cup {id}
    /\ \A n \in DOMAIN networks : networks'[n] = networks[n]
    /\ networks'[id].tenant = t
    /\ networks'[id].slug = Strip(payload.slug)
    /\ networks'[id].version = Strip(payload.version)
    /\ ~networks'[id].deleted
    /\ {r.node_key : r \in {x \in nodeRows' : x.network_id = id}} = NodeKeysOf(payload.spec)

\* C8 (as amended): a create with valid nodes whose tenant, slug and version,
\* the slug and version taken without surrounding whitespace, equal those of a
\* stored network (soft-deleted ones included) raises AgentNetworkConflict and
\* adds no network, node, edge or interface row; any other create with valid
\* nodes succeeds, so versions of a slug coexist.
C8_ConflictOnStrippedKey ==
    [][ (last'.op = "network.create" /\ PayloadNodesValid(last'.tenant, last'.payload.spec)) =>
          IF \E n \in DOMAIN networks :
                /\ networks[n].tenant = last'.tenant
                /\ networks[n].slug = Strip(last'.payload.slug)
                /\ networks[n].version = Strip(last'.payload.version)
          THEN last'.result.raised = "AgentNetworkConflict" /\ UNCHANGED netVars
          ELSE last'.result.raised = "none" /\ CreatedRow(last'.tenant, last'.payload, last'.target)
      ]_vars

\* C8 as written: a create with valid nodes raises AgentNetworkConflict and adds
\* no row when its (tenant, slug, version) equals that of a stored network, and
\* succeeds when a stored network has its tenant and slug but a different version.
C8_AsWritten ==
    [][ (last'.op = "network.create" /\ PayloadNodesValid(last'.tenant, last'.payload.spec)) =>
          /\ (\E n \in DOMAIN networks :
                /\ networks[n].tenant = last'.tenant
                /\ networks[n].slug = last'.payload.slug
                /\ networks[n].version = last'.payload.version)
             => (last'.result.raised = "AgentNetworkConflict" /\ UNCHANGED netVars)
          /\ ( /\ \E n \in DOMAIN networks :
                     networks[n].tenant = last'.tenant /\ networks[n].slug = last'.payload.slug
               /\ \A n \in DOMAIN networks :
                     (networks[n].tenant = last'.tenant /\ networks[n].slug = last'.payload.slug)
                        => networks[n].version # last'.payload.version )
             => last'.result.raised = "none"
      ]_vars

\* a create was refused as a conflict while the same slug is stored in two versions
C8_Witness ==
    /\ last.op = "network.create"
    /\ last.result.raised = "AgentNetworkConflict"
    /\ PayloadNodesValid(last.tenant, last.payload.spec)
    /\ \E n, m \in DOMAIN networks :
          /\ networks[n].tenant = "t1" /\ networks[m].tenant = "t1"
          /\ networks[n].slug = networks[m].slug
          /\ networks[n].version = <<"1">> /\ networks[m].version = <<"2">>

\* ------------------------------------------------ specification of the agent life cycle

AgentPayload(name, model) ==
    [name |-> name, ai_model_id |-> model, is_enabled |-> TRUE, bound |-> <<>>,
     allowed_tools |-> NoneList, limits |-> DefaultLimits]

\* create payloads: a new name, the name of agent a1, a model that does not
\* exist, and a step limit out of bounds
LifeCreatePayloads ==
    {AgentPayload(<<"b", " ">>, "m1"),
     AgentPayload(<<"a1">>, "m1"),
     AgentPayload(<<"c">>, "m9"),
     [AgentPayload(<<"c">>, "m1") EXCEPT !.limits.max_steps = 65]}

NoAgentChange == [name |-> <<>>, ai_model_id |-> <<>>, is_enabled |-> <<>>, bound |-> <<>>, config |-> <<>>]

LifeUpdatePayloads ==
    {[NoAgentChange EXCEPT !.is_enabled = <<TRUE>>],
     [NoAgentChange EXCEPT !.name = <<<<"a1">>>>],
     [NoAgentChange EXCEPT !.ai_model_id = <<"m9">>],
     [NoAgentChange EXCEPT !.config = <<[limits |-> [DefaultLimits EXCEPT !.max_tool_calls = 0],
                                         allowed_tools |-> <<>>]>>]}

LifeSpec(agent_id) == CrudSpec(<<Node("A", agent_id, NoId)>>, <<>>, NoId)

LifeNetPayloads ==
    {[slug |-> <<"s">>, version |-> <<"1">>, is_enabled |-> TRUE, spec |-> LifeSpec(a)] : a \in AgentIds}

LifeNetUpdates == {[is_enabled |-> <<>>, spec |-> <<LifeSpec(a)>>] : a \in AgentIds}

\* a tenant with an LLM model and one agent
InitLife ==
    /\ agents = [a \in {"a1"} |-> LiveAgent("t1", "m1", <<a>>)]
    /\ aimodels = [m \in {"m1"} |-> LlmModel("t1")]
    /\ tools = <<>>
    /\ networks = <<>>
    /\ nodeRows = {}
    /\ edgeRows = {}
    /\ ifaceRows = {}
    /\ last = NoCall
    /\ NoChat
    /\ registry = Registered

NextLife ==
    \/ \E payload \in LifeCreatePayloads : CreateAgent("t1", payload)
    \/ \E a \in AgentIds : GetAgent("t1", a)
    \/ \E enabled \in {<<>>, <<TRUE>>} : ListAgents("t1", enabled)
    \/ \E a \in AgentIds : \E payload \in LifeUpdatePayloads : UpdateAgent("t1", a, payload)
    \/ \E a \in AgentIds : DeleteAgent("t1", a)
    \/ \E a \in AgentIds : \E enabled \in BOOLEAN : SetAgentEnabled("t1", a, enabled)
    \/ \E a \in AgentIds : ValidateAgent("t1", a)
    \/ \E a \in AgentIds : InvokeAgent("t1", a, NoOverrides)
    \/ \E payload \in LifeNetPayloads : CreateNetwork("t1", payload)
    \/ \E payload \in LifeNetUpdates : UpdateNetwork("t1", "n1", payload)
    \/ ValidateNetworkCall("t1", "n1")

SpecLife == InitLife /\ [][NextLife]_vars

\* ------------------------------------------------ properties of the agent life cycle

AgentCallOps ==
    {"agent.get", "agent.update", "agent.delete", "agent.set_enabled", "agent.validate", "agent.invoke"}

SoftDeleted(a) == a \in DOMAIN agents /\ agents[a].deleted

ReferencesDeleted(spec) == \E i \in 1..Len(spec.nodes) : SoftDeleted(spec.nodes[i].agent_id)

\* C7: once an agent is soft-deleted it stays so; every later get, update,
\* delete, set_enabled, validate or invoke of it raises AgentNotFound, list
\* does not return it, and creating, updating or validating a network with a
\* node that references it raises AgentNetworkInvalid.
C7_SoftDeletedAgentIsGone ==
    [][ /\ \A a \in DOMAIN agents :
              agents[a].deleted =>
                  /\ a \in DOMAIN agents' /\ agents'[a].deleted
                  /\ \A t \in Tenants : ~AgentResolves(t, a)'
        /\ (last'.op \in AgentCallOps /\ SoftDeleted(last'.target))
              => last'.result.raised = "AgentNotFound"
        /\ last'.op = "agent.list" => \A a \in last'.result.items : ~SoftDeleted(a)
        /\ (last'.op = "network.create" /\ ReferencesDeleted(last'.payload.spec))
              => last'.result.raised = "AgentNetworkInvalid"
        /\ ( /\ last'.op = "network.update"
             /\ NetworkResolves(last'.tenant, last'.target)
             /\ last'.payload.spec # <<>>
             /\ ReferencesDeleted(last'.payload.spec[1]) )
              => last'.result.raised = "AgentNetworkInvalid"
        /\ ( /\ last'.op = "network.validate"
             /\ NetworkResolves(last'.tenant, last'.target)
             /\ ReferencesDeleted(networks[last'.target].spec) )
              => last'.result.raised = "AgentNetworkInvalid"
      ]_vars

\* a network stored while its agent lived is validated after the agent's
\* deletion, and a new agent has been created since
C7_Witness ==
    /\ last.op = "network.validate"
    /\ NetworkResolves("t1", last.target)
    /\ ReferencesDeleted(networks[last.target].spec)
    /\ last.result = Raise("AgentNetworkInvalid", "Referenced agent not found")
    /\ \E a \in DOMAIN agents : ~agents[a].deleted

\* an invoke of a soft-deleted agent raised AgentNotFound
C7_WitnessInvoke ==
    /\ last.op = "agent.invoke"
    /\ SoftDeleted(last.target)
    /\ last.result.raised = "AgentNotFound"

\* ------------------------------------------------ specification of the tool policy

\* allow-lists of a config or an override: None, empty, one tool, both tools
\* (out of binding order), a tool that is not bound
AllowLists == {NoneList, <<>>, <<"T1">>, <<"T2", "T1">>, <<"T9">>}

Overrides == {[allowed_tools |-> l] : l \in AllowLists}

PolicyUpdates ==
    {[NoAgentChange EXCEPT !.config = <<[limits |-> DefaultLimits, allowed_tools |-> l]>>] :
        l \in AllowLists}
    \cup {[NoAgentChange EXCEPT !.bound = <<b>>] : b \in {<<>>, <<"T2">>, <<"T1", "T2">>}}

StandaloneSpec ==
    [type |-> "standalone", nodes |-> <<Node("A", "a1", NoId)>>, edges |-> <<>>,
     swarm |-> NoSwarmCfg, interface |-> NoId]

\* a tenant with an LLM model, two sql.select tools, an agent bound to both
\* and a standalone network around the agent
InitPolicy ==
    /\ agents = [a \in {"a1"} |-> [LiveAgent("t1", "m1", <<a>>) EXCEPT !.bound = <<"T1", "T2">>]]
    /\ aimodels = [m \in {"m1"} |-> LlmModel("t1")]
    /\ tools = [x \in {"T1", "T2"} |-> [LiveTool("t1", "sql.select") EXCEPT !.name = <<x>>]]
    /\ networks = [n \in {"n1"} |->
                     [tenant |-> "t1", slug |-> <<"s">>, version |-> <<"1">>, deleted |-> FALSE,
                      is_enabled |-> TRUE, spec |-> StandaloneSpec]]
    /\ nodeRows = NodeRowsOf("n1", StandaloneSpec)
    /\ edgeRows = {}
    /\ ifaceRows = {}
    /\ last = NoCall
    /\ NoChat
    /\ registry = Registered

NextPolicy ==
    \/ \E payload \in PolicyUpdates : UpdateAgent("t1", "a1", payload)
    \/ \E x \in ToolIds : DeleteTool("t1", x)
    \/ \E x \in ToolIds : \E enabled \in BOOLEAN : SetToolEnabled("t1", x, enabled)
    \/ \E ov \in Overrides : InvokeAgent("t1", "a1", ov)
    \/ \E ov \in Overrides : InvokeNetworkCall("t1", "n1", ov)

SpecPolicy == InitPolicy /\ [][NextPolicy]_vars

\* the bound tools that are tools of the tenant (not soft-deleted)
BoundTools(t, agent) == {x \in Range(agent.bound) : ToolResolves(t, x)}

\* the agent an invocation ran, and the allow-list in force for it
InvokedAgent ==
    IF last.op = "agent.invoke" THEN last.target ELSE networks[last.target].spec.nodes[1].agent_id

LastRan ==
    \/ last.op = "agent.invoke" /\ last.result.ran
    \/ last.op = "network.invoke" /\ last.result.called # <<>>

\* C3: the tools exposed to the model loop are all bound tools when the
\* allow-list in force is None, none when it is empty, and the bound tools it
\* names otherwise; the allow-list in force is the override's whenever the
\* override gives one (the empty list included) and the agent's own otherwise.
C3_ToolPolicyTriState ==
    LastRan =>
        LET agent == agents[InvokedAgent]
            B == BoundTools(last.tenant, agent)
            given == last.payload.allowed_tools
            effective == IF given # NoneList THEN given ELSE agent.allowed_tools
            exposed == Range(last.result.exposed)
        IN /\ effective = NoneList => exposed = B
           /\ effective = <<>> => exposed = {}
           /\ (effective # NoneList /\ effective # <<>>) => exposed = B \cap Range(effective)

\* an empty override hid both tools of an agent whose own allow-list names one
C3_Witness ==
    /\ last.op = "agent.invoke"
    /\ last.result.ran
    /\ last.payload.allowed_tools = <<>>
    /\ agents[last.target].allowed_tools = <<"T1">>
    /\ BoundTools("t1", agents[last.target]) = {"T1", "T2"}
    /\ last.result.exposed = <<>>

\* a standalone network passed an override naming one tool to its agent
C3_WitnessNetwork ==
    /\ last.op = "network.invoke"
    /\ last.payload.allowed_tools = <<"T1">>
    /\ agents["a1"].allowed_tools = NoneList
    /\ last.result.called = <<"a1">>
    /\ last.result.exposed = <<"T1">>

\* ------------------------------------------------ specification of the sql.select limits

SqlLimits == {<<>>, <<0>>, <<1>>, <<499>>, <<500>>, <<501>>, <<10000>>}
SqlMaxRows == {<<>>, <<1>>, <<500>>, <<20000>>}
SqlTimeouts == {<<>>, <<0>>, <<90>>}
SqlPayloads == [limit : SqlLimits, where : {{}, {"region"}}]

SqlConfigs ==
    [max_rows : SqlMaxRows, query_timeout_s : SqlTimeouts, top_k : {<<>>},
     allowed_predicates : {{}}]
    \cup [max_rows : {<<500>>}, query_timeout_s : {<<>>}, top_k : {<<>>},
          allowed_predicates : {{"id"}}]

\* a tenant with one sql.select tool of default config
InitSql ==
    /\ agents = <<>>
    /\ aimodels = <<>>
    /\ tools = [x \in {"T1"} |-> LiveTool("t1", "sql.select")]
    /\ networks = <<>>
    /\ nodeRows = {}
    /\ edgeRows = {}
    /\ ifaceRows = {}
    /\ last = NoCall
    /\ NoChat
    /\ registry = Registered

NextSql ==
    \/ \E cfg \in SqlConfigs : UpdateTool("t1", "T1", [is_enabled |-> <<>>, bindings |-> <<>>, config |-> <<cfg>>])
    \/ \E enabled \in BOOLEAN : SetToolEnabled("t1", "T1", enabled)
    \/ \E payload \in SqlPayloads : InvokeTool("t1", "T1", payload)

SpecSql == InitSql /\ [][NextSql]_vars

LastMaxRows ==
    IF tools[last.target].config.max_rows = <<>> THEN DefaultMaxRows ELSE tools[last.target].config.max_rows[1]

\* C10: the limit handed to the dataset layer never exceeds max_rows: it is the
\* smaller of the requested limit and max_rows, or max_rows when no limit is
\* requested; a request above max_rows on an enabled tool is clamped to
\* max_rows and is not refused.
C10_LimitClamped ==
    last.op = "tool.invoke" /\ ToolResolves(last.tenant, last.target) =>
        /\ last.result.handed =>
              /\ last.result.limit <= LastMaxRows
              /\ last.payload.limit = <<>> => last.result.limit = LastMaxRows
              /\ last.payload.limit # <<>> =>
                    /\ last.result.limit <= last.payload.limit[1]
                    /\ last.result.limit \in {last.payload.limit[1], LastMaxRows}
        /\ ( /\ tools[last.target].is_enabled
             /\ last.payload.limit # <<>>
             /\ last.payload.limit[1] > LastMaxRows
             /\ last.payload.where = {} )
              => last.result.raised = "none" /\ last.result.handed /\ last.result.limit = LastMaxRows

\* a request for 10000 rows against the default max_rows was handed on with limit 500
C10_Witness ==
    /\ last.op = "tool.invoke"
    /\ last.payload.limit = <<10000>>
    /\ tools[last.target].config.max_rows \in {<<>>, <<500>>}
    /\ last.result.raised = "none"
    /\ last.result.handed
    /\ last.result.limit = 500

\* ------------------------------------------------ AI model specification

ApiKey == <<"api_key">>

WithHeaders(v, h) ==
    [k \in {ApiKey, <<"extra_headers">>} |->
        IF k = ApiKey THEN v ELSE Dict([a \in {<<"Authorization">>} |-> h])]

ModelCreateConfigs ==
    {KeyOnly(Str("sk-1")), KeyOnly(Str("")), KeyOnly(REDACTED),
     WithHeaders(Str("sk-1"), Str("b1"))}

ModelCreatePayloads ==
    {[name |-> n, type |-> ty, category |-> "llm", is_enabled |-> TRUE, config |-> c] :
        n \in {<<"gpt">>, <<"gpt", " ">>}, ty \in {"llm.openai", "llm.other"},
        c \in ModelCreateConfigs}

PatchConfigs ==
    {KeyOnly(REDACTED), KeyOnly(Str("sk-2")), KeyOnly(Str("")), KeyOnly(Null), KeyOnly(Num(7)),
     [k \in {<<"base_url">>} |-> Str("https://x.openai.azure.com")],
     [k \in {<<"base_url">>} |-> Str("https://api.openai.com")],
     [k \in {ApiKey, <<"base_url">>} |-> IF k = ApiKey THEN Str("sk-2") ELSE Num(1)],
     [k \in {<<"extra_headers">>} |-> Dict([a \in {<<"Authorization">>} |-> REDACTED])],
     [k \in {<<"extra_headers">>} |-> Dict([a \in {<<"Authorization">>} |-> Str("b2")])]}

ModelPatches ==
    {[is_enabled |-> e, config |-> c] :
        e \in {<<>>, <<FALSE>>}, c \in {<<>>} \cup {<<x>> : x \in PatchConfigs}}

InitModel ==
    /\ agents = <<>>
    /\ aimodels = <<>>
    /\ tools = <<>>
    /\ networks = <<>>
    /\ nodeRows = <<>>
    /\ edgeRows = <<>>
    /\ ifaceRows = <<>>
    /\ last = NoCall
    /\ NoChat
    /\ registry = Registered

NextModel ==
    \/ \E payload \in ModelCreatePayloads : CreateModel("t1", payload)
    \/ \E payload \in ModelPatches : UpdateModel("t1", "m1", payload)
    \/ \E t \in Tenants : GetModel(t, "m1")
    \/ DeleteModel("t1", "m1")

SpecModel == InitModel /\ [][NextModel]_vars

\* ------------------------------------------------ AI model properties

StoredKey(models, model_id) == DictGet(DecryptConfig(models[model_id].config_encrypted), ApiKey)

PatchesKey(call) ==
    /\ call.op = "model.update"
    /\ call.payload.config # <<>>
    /\ ApiKey \in DOMAIN call.payload.config[1]

PatchedKey(call) == call.payload.config[1][ApiKey]

C9_WitnessReplaced ==
    /\ PatchesKey(last)
    /\ last.result.raised = "none"
    /\ PatchedKey(last) = Str("sk-2")
    /\ StoredKey(aimodels, last.target) = Str("sk-2")

\* ------------------------------------------------ swarm turn-taking

\* A transcript message is [type, content].  The content is tagged: a text
\* <<"text", symbols>>, the transfer marker <<"transferred", source, dest>>,
\* the instruction for the destination <<"instruction", dest>>, or the
\* forwarding text <<"forward", source, quoted>> that quotes a content.
Text(symbols) == <<"text", symbols>>
HumanMessage(content) == [type |-> "human", content |-> content]
AIMessage(content) == [type |-> "ai", content |-> content]

\* ToolMessage(content=f"Transferred from {source_name} to {agent_name}", name=name, ...)
ToolMessage(source_name, agent_name) ==
    [type |-> "tool", content |-> <<"transferred", source_name, agent_name>>]

\* SystemMessage(content=f"You are {agent_name}. Respond directly ...")
SystemMessage(agent_name) == [type |-> "system", content |-> <<"instruction", agent_name>>]

\* content.strip(): a forwarding text begins and ends with a non-blank character
StripContent(content) ==
    IF content[1] = "text" THEN Text(Strip(content[2])) ELSE content

\* isinstance(content, str) and content.strip()
NonBlank(content) == StripContent(content) # Text(<<>>)

\* handoff_tool: last_user_text, the stripped content of the last human message
\* whose content is not blank; <<>> when there is none, <<text>> otherwise
RECURSIVE LastUserText(_, _)
LastUserText(msgs, i) ==
    IF i = 0 THEN <<>>
    ELSE IF msgs[i].type = "human" /\ NonBlank(msgs[i].content)
    THEN <<StripContent(msgs[i].content)>>
    ELSE LastUserText(msgs, i - 1)

\* a handoff that always fabricates the system and forwarding messages
HandoffMessagesAlways(msgs, source_name, agent_name) ==
    LET found == LastUserText(msgs, Len(msgs))
        quoted == IF found = <<>> THEN Text(<<>>) ELSE found[1]
    IN msgs \o <<ToolMessage(source_name, agent_name), SystemMessage(agent_name),
                 HumanMessage(<<"forward", source_name, quoted>>)>>

\* handoff_tool: new_messages
HandoffMessages(msgs, source_name, agent_name) ==
    LET found == LastUserText(msgs, Len(msgs))
    IN IF found # <<>>
       THEN msgs \o <<ToolMessage(source_name, agent_name), SystemMessage(agent_name),
                      HumanMessage(<<"forward", source_name, found[1]>>)>>
       ELSE msgs \o <<ToolMessage(source_name, agent_name)>>

\* invoke_swarm: messages handed to swarm.invoke for payload.input (NoneText is None)
InitialMessages(input) ==
    IF input = NoneText THEN <<>> ELSE <<HumanMessage(Text(input))>>

\* the handoff tools of the built agents: node key -> destinations
BuiltHandoff(exec) ==
    [k \in Range(exec.built) |->
        exec.handoff[CHOOSE i \in 1..Len(exec.built) : exec.built[i] = k]]

\* the turns one run of the model may take
MaxTurns == 3

\* the node whose agent is active, if the active name is that of a built agent
ActiveNodes == {k \in DOMAIN run.handoff : KeyText(k) = run.active}

\* AgentNetworkService.invoke on a swarm: the agents are built, the swarm is
\* compiled with default_active and handed the initial messages
SwarmStart(t, network_id, input) ==
    /\ run.status # "running"
    /\ LET r == InvokeNetwork(t, network_id, NoOverrides)
       IN /\ last' = [op |-> "network.invoke", tenant |-> t, target |-> network_id,
                      payload |-> [allowed_tools |-> NoneList, input |-> input], result |-> r]
          /\ run' = IF r.raised = "none" /\ networks[network_id].spec.type = "swarm"
                    THEN [status |-> "running", active |-> r.default_active,
                          handoff |-> BuiltHandoff(r),
                          transcript |-> InitialMessages(input), turns |-> 0]
                    ELSE NoSwarmRun
    /\ UNCHANGED <<agents, aimodels, tools, networks, nodeRows, edgeRows, ifaceRows, chatVars, registry>>

\* the active agent calls its tool transfer_to_<dest>: handoff_tool returns
\* Command(goto=agent_name, update={"messages": new_messages})
SwarmHandoff(dest) ==
    /\ run.status = "running"
    /\ run.turns < MaxTurns
    /\ \E k \in ActiveNodes :
          /\ dest \in Range(run.handoff[k])
          /\ run' = [run EXCEPT !.active = KeyText(dest),
                                !.transcript = HandoffMessages(run.transcript, k, dest),
                                !.turns = @ + 1]
    /\ UNCHANGED <<agents, aimodels, tools, networks, nodeRows, edgeRows, ifaceRows, chatVars, registry, last>>

\* the active agent ends its turn with an answer and no handoff
SwarmAnswer ==
    /\ run.status = "running"
    /\ ActiveNodes # {}
    /\ run' = [run EXCEPT !.status = "done",
                          !.transcript = Append(@, AIMessage(Text(<<"answer">>)))]
    /\ UNCHANGED <<agents, aimodels, tools, networks, nodeRows, edgeRows, ifaceRows, chatVars, registry, last>>

\* the active name is that of no built agent: the runtime has nothing to run
SwarmFault ==
    /\ run.status = "running"
    /\ ActiveNodes = {}
    /\ run' = [run EXCEPT !.status = "failed"]
    /\ UNCHANGED <<agents, aimodels, tools, networks, nodeRows, edgeRows, ifaceRows, chatVars, registry, last>>

\* ------------------------------------------------ specification of swarm runs

SwarmNodeLists ==
    {<<GraphNode("A", 1), GraphNode("B", 2)>>, <<GraphNode("B", 1), GraphNode("A", 2)>>}

SwarmEdgeLists ==
    {<<>>, <<Edge("A", "B")>>, <<Edge("A", "B"), Edge("B", "A")>>, <<Edge("A", "X")>>,
     <<Edge("A", "A"), Edge("A", "B")>>}

SwarmRunCfgs ==
    [default_active_agent : {NoneText, <<"B">>, <<"A", " ">>, <<"X">>},
     handoff_policy : {NoneText, <<"allow_all">>}]

SwarmPayloads ==
    {[slug |-> <<"s">>, version |-> <<"1">>, is_enabled |-> TRUE,
      spec |-> [type |-> "swarm", nodes |-> ns, edges |-> es, swarm |-> cfg, interface |-> NoId]] :
        ns \in SwarmNodeLists, es \in SwarmEdgeLists, cfg \in SwarmRunCfgs}

\* payload.input: absent, empty, blank, a question, a question after a blank
SwarmInputs == {NoneText, <<>>, <<" ">>, <<"q">>, <<" ", "q">>}

\* a tenant with an LLM model and two agents; one swarm network is created and
\* then invoked, one invocation at a time
InitSwarm ==
    /\ agents = [a \in {"a1", "a2"} |-> LiveAgent("t1", "m1", <<a>>)]
    /\ aimodels = [m \in {"m1"} |-> LlmModel("t1")]
    /\ tools = <<>>
    /\ networks = <<>>
    /\ nodeRows = {}
    /\ edgeRows = {}
    /\ ifaceRows = {}
    /\ last = NoCall
    /\ NoChat
    /\ registry = Registered

NextSwarm ==
    \/ DOMAIN networks = {} /\ \E payload \in SwarmPayloads : CreateNetwork("t1", payload)
    \/ \E input \in SwarmInputs : SwarmStart("t1", "n1", input)
    \/ \E dest \in {"A", "B", "X"} : SwarmHandoff(dest)
    \/ SwarmAnswer
    \/ SwarmFault

SpecSwarm == InitSwarm /\ [][NextSwarm]_vars

\* ------------------------------------------------ properties of swarm runs

RunSpec == networks["n1"].spec

\* C11: while a swarm runs, the active agent is a node_key of the spec: it
\* starts as swarm.default_active_agent when that is set and as the first node
\* of the spec otherwise, and every handoff goes to a node of the spec.
C11_ActiveAgentIsNode ==
    run.status = "running" =>
        /\ \E k \in NodeKeysOf(RunSpec) : run.active = KeyText(k)
        /\ \A k \in DOMAIN run.handoff : Range(run.handoff[k]) \subseteq NodeKeysOf(RunSpec)

\* a swarm that validate accepts runs with an active agent that is no node:
\* default_active_agent is "A " and the nodes are A and B
C11_Witness ==
    /\ run.status = "running"
    /\ run.turns = 0
    /\ run.active = <<"A", " ">>
    /\ ValidateNetwork("t1", "n1").raised = "none"
    /\ NodeKeysOf(RunSpec) = {"A", "B"}

\* a handoff went to X, which is no node of the spec
C11_WitnessHandoff ==
    /\ run.status = "running"
    /\ run.turns = 1
    /\ run.active = <<"X">>
    /\ "X" \notin NodeKeysOf(RunSpec)

\* a human message of the transcript that carries text other than whitespace
HumanWithText(msg) ==
    /\ msg.type = "human"
    /\ msg.content[1] = "text" => \E j \in 1..Len(msg.content[2]) : msg.content[2][j] # " "

\* the messages a step appended to the transcript
Appended == SubSeq(run'.transcript, Len(run.transcript) + 1, Len(run'.transcript))

\* a step of the run that is a handoff
IsHandoffStep == run.status = "running" /\ run'.turns = run.turns + 1

\* C13: a handoff leaves the transcript it found as a prefix of the new one
\* and appends the transfer marker alone when no human message of the
\* transcript carries text, and otherwise the marker, one system instruction
\* and one forwarding user message quoting the most recent human message that
\* carries text; control passes to the destination and no answer is produced.
C13_HandoffAppendsContext ==
    [][IsHandoffStep =>
        LET old == run.transcript
            new == run'.transcript
            with == {i \in 1..Len(old) : HumanWithText(old[i])}
        IN /\ Len(new) > Len(old)
           /\ SubSeq(new, 1, Len(old)) = old
           /\ Appended[1].type = "tool"
           /\ Appended[1].content[1] = "transferred"
           /\ KeyText(Appended[1].content[2]) = run.active
           /\ KeyText(Appended[1].content[3]) = run'.active
           /\ with = {} => Len(Appended) = 1
           /\ with # {} =>
                 LET recent == CHOOSE i \in with : \A j \in with : j <= i
                 IN /\ Len(Appended) = 3
                    /\ Appended[2] = [type |-> "system",
                                      content |-> <<"instruction", Appended[1].content[3]>>]
                    /\ Appended[3].type = "human"
                    /\ Appended[3].content =
                          <<"forward", Appended[1].content[2], StripContent(old[recent].content)>>
           /\ \A i \in 1..Len(Appended) : Appended[i].type # "ai"
           /\ run'.status = "running"
           /\ last' = last
    ]_vars

\* a handoff from A to B found the question " q" and appended the marker, the
\* instruction for B and the forwarding message quoting "q"
C13_Witness ==
    /\ run.status = "running"
    /\ run.turns = 1
    /\ run.active = <<"B">>
    /\ run.transcript = <<HumanMessage(Text(<<" ", "q">>)), ToolMessage("A", "B"),
                          SystemMessage("B"),
                          HumanMessage(<<"forward", "A", Text(<<"q">>)>>)>>

\* a handoff found only a blank human message and appended the marker alone
C13_WitnessMarkerAlone ==
    /\ run.status = "running"
    /\ run.turns = 1
    /\ run.transcript = <<HumanMessage(Text(<<" ">>)), ToolMessage("A", "B")>>

\* a second handoff quoted the forwarding message of the first
C13_WitnessSecond ==
    /\ run.status = "running"
    /\ run.turns = 2
    /\ Len(run.transcript) = 7
    /\ run.transcript[7].content = <<"forward", "B", run.transcript[4].content>>

\* ------------------------------------------------ specification of invocations

\* the arguments of a tool call of the model loop, and the payloads of the API
CallArgs == [limit : {<<>>, <<1>>}, where : {<<>>, <<{"region"}>>}]
ToolPayloads == [limit : {<<>>, <<1>>}, where : {{}}]

InvokeModelIds == {"m1", "m2", "m3", "m9"}

\* agent a1 of tenant t1 on the LLM model m1, bound to a sql.select tool and a
\* vector search tool; m2 is an LLM model of tenant t2 and m3 an embedding
\* model of t1
InitInvoke ==
    /\ agents = [a \in {"a1"} |-> [LiveAgent("t1", "m1", <<a>>) EXCEPT !.bound = <<"T1", "T2">>]]
    /\ aimodels = [m \in {"m1", "m2", "m3"} |->
                     IF m = "m1" THEN LlmModel("t1")
                     ELSE IF m = "m2" THEN LlmModel("t2")
                     ELSE [LlmModel("t1") EXCEPT !.name = <<"emb">>, !.category = "embedding",
                                                 !.type = "embedding.openai"]]
    /\ tools = [x \in {"T1", "T2"} |->
                  LiveTool("t1", IF x = "T1" THEN "sql.select" ELSE "vector.similarity_search")]
    /\ networks = <<>>
    /\ nodeRows = {}
    /\ edgeRows = {}
    /\ ifaceRows = {}
    /\ last = NoCall
    /\ NoChat
    /\ registry = Registered

NextInvoke ==
    \/ \E enabled \in BOOLEAN : SetAgentEnabled("t1", "a1", enabled)
    \/ \E m \in InvokeModelIds :
          UpdateAgent("t1", "a1", [NoAgentChange EXCEPT !.ai_model_id = <<m>>])
    \/ \E enabled \in BOOLEAN :
          UpdateModel("t1", "m1", [is_enabled |-> <<enabled>>, config |-> <<>>])
    \/ DeleteModel("t1", "m1")
    \/ InvokeAgent("t1", "a1", NoOverrides)
    \/ \E x \in {"T1", "T2"} : \E args \in CallArgs : AgentToolCall(x, args)
    \/ \E x \in {"T1", "T2"} : \E payload \in ToolPayloads : InvokeTool("t1", x, payload)
    \/ \E x \in {"T1", "T2"} : \E enabled \in BOOLEAN : SetToolEnabled("t1", x, enabled)
    \/ \E x \in {"T1", "T2"} : DeleteTool("t1", x)
    \/ \E x \in {"T1", "T2"} : \E b \in BOOLEAN :
          UpdateTool("t1", x, [is_enabled |-> <<>>, bindings |-> <<b>>, config |-> <<>>])

SpecInvoke == InitInvoke /\ [][NextInvoke]_vars

\* ------------------------------------------------ properties of invocations

\* the model of id m cannot serve tenant t: it is missing, soft-deleted, of
\* another tenant, disabled, or not of the category llm
ModelUnusable(t, m) ==
    \/ m \notin DOMAIN aimodels
    \/ aimodels[m].deleted
    \/ aimodels[m].tenant # t
    \/ ~aimodels[m].is_enabled
    \/ aimodels[m].category # "llm"

\* C15: invoking a disabled agent raises AgentDisabled, whatever the state of
\* its model; invoking an enabled agent whose model is missing, soft-deleted,
\* of another tenant, disabled or not an LLM raises AgentConfigInvalid; in both
\* cases the model loop does not run and no tool is given to it.
C15_InvokePreconditions ==
    /\ (last.op = "agent.invoke" /\ AgentResolves(last.tenant, last.target)) =>
          LET agent == agents[last.target]
          IN /\ ~agent.is_enabled =>
                   /\ last.result.raised = "AgentDisabled"
                   /\ ~last.result.ran /\ last.result.exposed = <<>>
             /\ (agent.is_enabled /\ ModelUnusable(last.tenant, agent.ai_model_id)) =>
                   /\ last.result.raised = "AgentConfigInvalid"
                   /\ ~last.result.ran /\ last.result.exposed = <<>>
    /\ \A m \in InvokeModelIds :
          ModelUnusable("t1", m) => EnsureLlmModel("t1", m, TRUE).raised = "AgentConfigInvalid"
    /\ last.op = "agent.tool_call" => ~ModelUnusable(last.tenant, agents["a1"].ai_model_id)
                                      /\ agents["a1"].is_enabled

\* a disabled agent whose model is soft-deleted was invoked and AgentDisabled was raised
C15_Witness ==
    /\ last.op = "agent.invoke"
    /\ ~agents[last.target].is_enabled
    /\ aimodels[agents[last.target].ai_model_id].deleted
    /\ last.result.raised = "AgentDisabled"

\* an enabled agent whose model is disabled was invoked and AgentConfigInvalid was raised
C15_WitnessDisabledModel ==
    /\ last.op = "agent.invoke"
    /\ agents[last.target].is_enabled
    /\ ~aimodels[agents[last.target].ai_model_id].deleted
    /\ ~aimodels[agents[last.target].ai_model_id].is_enabled
    /\ last.result = AgentRaise("AgentConfigInvalid", "Referenced AI model is disabled")

\* C16: whether a tool is invoked through the API or called by the model loop
\* of an agent, adapter.invoke is entered only for a tool that is a tool of the
\* caller's tenant and not soft-deleted, is enabled, has a registered adapter
\* and bindings that validate_bindings accepts.
C16_AdapterBehindService ==
    (last.op \in {"tool.invoke", "agent.tool_call"} /\ last.result.adapter) =>
        /\ ToolResolves(last.tenant, last.target)
        /\ tools[last.target].is_enabled
        /\ RegistryGet(tools[last.target].kind, tools[last.target].provider) # NoAdapter
        /\ ValidateBindings(tools[last.target].primary).raised = "none"

\* the model loop called a bound sql.select tool and the query went to the dataset layer
C16_Witness ==
    /\ last.op = "agent.tool_call"
    /\ last.target = "T1"
    /\ last.result.adapter /\ last.result.handed

\* the model loop was given a disabled tool and its call raised AgentToolDisabled
C16_WitnessDisabled ==
    /\ last.op = "agent.tool_call"
    /\ ~tools[last.target].is_enabled
    /\ last.result = ToolRaise("AgentToolDisabled", "Agent Tool is disabled")

\* ------------------------------------------------ chatbot and thread services

\* A chatbot row keeps tenant, name, slug, deleted, is_enabled and the network
\* binding; a thread row keeps tenant, chatbot_id and status; a message row
\* keeps tenant, thread_id, role and the text of its content.  Each tenant of
\* the model has one user, so a thread of the tenant is a thread of the caller.
BotIdOrder == <<"c1", "c2">>
UnusedBotIds == LET Free(c) == c \notin DOMAIN chatbots IN SelectSeq(BotIdOrder, Free)
ThreadIdOrder == <<"h1", "h2">>
UnusedThreadIds == LET Free(h) == h \notin DOMAIN threads IN SelectSeq(ThreadIdOrder, Free)

\* the messages the table may hold in the model, and the thread turns that
\* may be between their two commits at once
MaxMessages == 4
MaxPending == 1

\* a chatbot lookup that lacks the tenant filter
ChatbotResolvesAnyTenant(t, chatbot_id) ==
    /\ chatbot_id \in DOMAIN chatbots
    /\ ~chatbots[chatbot_id].deleted

\* ChatbotService._get_owned
ChatbotResolves(t, chatbot_id) ==
    /\ chatbot_id \in DOMAIN chatbots
    /\ chatbots[chatbot_id].tenant = t
    /\ ~chatbots[chatbot_id].deleted

NotFoundBot == Raise("ChatbotNotFound", "Chatbot not found")
NotFoundThread == Raise("ChatbotInvalid", "Thread not found or access denied")

\* ChatbotService._ensure_network_binding (every network of the model has a
\* status other than deprecated)
EnsureNetworkBinding(t, network_id, version) ==
    IF /\ NetworkResolves(t, network_id)
       /\ networks[network_id].is_enabled
       /\ networks[network_id].version = version
    THEN Ok
    ELSE Raise("ChatbotInvalid", "Referenced agent network id/version not found or not enabled")

\* ChatbotService._validate_create_payload
ValidateBotPayload(t, payload) ==
    IF ~Truthy(payload.name) THEN Raise("ChatbotInvalid", "name is required")
    ELSE IF ~Truthy(payload.slug) THEN Raise("ChatbotInvalid", "slug is required")
    ELSE IF payload.agent_network_id = NoId \/ ~Truthy(payload.agent_network_version)
    THEN Raise("ChatbotInvalid", "agent_network_id and agent_network_version are required")
    ELSE EnsureNetworkBinding(t, payload.agent_network_id, payload.agent_network_version)

\* uq_chatbot_tenant_name, uq_chatbot_tenant_slug: soft-deleted rows included
BotKeyTaken(t, name, slug, except) ==
    \E c \in DOMAIN chatbots \ {except} :
        /\ chatbots[c].tenant = t
        /\ chatbots[c].name = name \/ chatbots[c].slug = slug

BotConflict == Raise("ChatbotConflict", "A chatbot with this name or slug already exists in the tenant")

\* ChatbotService.create
CreateChatbot(t, payload) ==
    /\ LET v == ValidateBotPayload(t, payload)
           r == IF v.raised # "none" THEN v
                ELSE IF BotKeyTaken(t, Strip(payload.name), Strip(payload.slug), NoId)
                THEN BotConflict
                ELSE Ok
           id == IF UnusedBotIds # <<>> THEN Head(UnusedBotIds) ELSE NoId
       IN /\ r.raised = "none" => id # NoId
          /\ IF r.raised = "none"
             THEN chatbots' = [c \in DOMAIN chatbots \cup {id} |->
                                 IF c = id
                                 THEN [tenant |-> t, name |-> Strip(payload.name),
                                       slug |-> Strip(payload.slug), deleted |-> FALSE,
                                       is_enabled |-> payload.is_enabled,
                                       agent_network_id |-> payload.agent_network_id,
                                       agent_network_version |-> payload.agent_network_version]
                                 ELSE chatbots[c]]
             ELSE UNCHANGED chatbots
          /\ last' = [op |-> "chatbot.create", tenant |-> t,
                      target |-> IF r.raised = "none" THEN id ELSE NoId,
                      payload |-> payload, result |-> r]
    /\ UNCHANGED <<agents, aimodels, tools, networks, nodeRows, edgeRows, ifaceRows,
                   threads, messages, pending, run, registry>>

\* ChatbotService.get
GetChatbot(t, chatbot_id) ==
    /\ last' = [op |-> "chatbot.get", tenant |-> t, target |-> chatbot_id, payload |-> <<>>,
                result |-> IF ChatbotResolves(t, chatbot_id) THEN Ok ELSE NotFoundBot]
    /\ UNCHANGED <<agents, aimodels, tools, networks, nodeRows, edgeRows, ifaceRows, chatVars, run, registry>>

\* ChatbotService.update with the keys is_enabled, agent_network_id and
\* agent_network_version: the row after the assignments of a payload whose
\* keys are <<>> when absent and <<v>> otherwise
PatchedBot(row, payload) ==
    [row EXCEPT
        !.is_enabled = IF payload.is_enabled # <<>> THEN payload.is_enabled[1] ELSE @,
        !.agent_network_id =
            IF payload.agent_network_id # <<>> /\ payload.agent_network_id[1] # NoId
            THEN payload.agent_network_id[1] ELSE @,
        !.agent_network_version =
            IF payload.agent_network_version # <<>> /\ Truthy(payload.agent_network_version[1])
            THEN payload.agent_network_version[1] ELSE @]

UpdateChatbotOutcome(t, chatbot_id, payload) ==
    IF ~ChatbotResolves(t, chatbot_id) THEN NotFoundBot
    ELSE IF payload.agent_network_id # <<>> \/ payload.agent_network_version # <<>>
    THEN EnsureNetworkBinding(t, PatchedBot(chatbots[chatbot_id], payload).agent_network_id,
                              PatchedBot(chatbots[chatbot_id], payload).agent_network_version)
    ELSE Ok

\* ChatbotService.update
UpdateChatbot(t, chatbot_id, payload) ==
    /\ IF UpdateChatbotOutcome(t, chatbot_id, payload).raised = "none"
       THEN chatbots' = [chatbots EXCEPT ![chatbot_id] = PatchedBot(@, payload)]
       ELSE UNCHANGED chatbots
    /\ last' = [op |-> "chatbot.update", tenant |-> t, target |-> chatbot_id,
                payload |-> payload, result |-> UpdateChatbotOutcome(t, chatbot_id, payload)]
    /\ UNCHANGED <<agents, aimodels, tools, networks, nodeRows, edgeRows, ifaceRows,
                   threads, messages, pending, run, registry>>

\* ChatbotService.delete (soft delete)
DeleteChatbot(t, chatbot_id) ==
    /\ IF ChatbotResolves(t, chatbot_id)
       THEN chatbots' = [chatbots EXCEPT ![chatbot_id].deleted = TRUE]
       ELSE UNCHANGED chatbots
    /\ last' = [op |-> "chatbot.delete", tenant |-> t, target |-> chatbot_id, payload |-> <<>>,
                result |-> IF ChatbotResolves(t, chatbot_id) THEN Ok ELSE NotFoundBot]
    /\ UNCHANGED <<agents, aimodels, tools, networks, nodeRows, edgeRows, ifaceRows,
                   threads, messages, pending, run, registry>>

\* ChatbotService.set_enabled
SetChatbotEnabled(t, chatbot_id, enabled) ==
    /\ IF ChatbotResolves(t, chatbot_id)
       THEN chatbots' = [chatbots EXCEPT ![chatbot_id].is_enabled = enabled]
       ELSE UNCHANGED chatbots
    /\ last' = [op |-> "chatbot.set_enabled", tenant |-> t, target |-> chatbot_id,
                payload |-> <<enabled>>,
                result |-> IF ChatbotResolves(t, chatbot_id) THEN Ok ELSE NotFoundBot]
    /\ UNCHANGED <<agents, aimodels, tools, networks, nodeRows, edgeRows, ifaceRows,
                   threads, messages, pending, run, registry>>

\* ChatbotService.invoke: what it returns or raises
ChatbotInvoke(t, chatbot_id) ==
    IF ~ChatbotResolves(t, chatbot_id) THEN ExecRaise(NotFoundBot.raised, NotFoundBot.detail)
    ELSE IF ~chatbots[chatbot_id].is_enabled THEN ExecRaise("ChatbotInvalid", "Chatbot is disabled")
    ELSE LET b == EnsureNetworkBinding(t, chatbots[chatbot_id].agent_network_id,
                                       chatbots[chatbot_id].agent_network_version)
         IN IF b.raised # "none" THEN ExecRaise(b.raised, b.detail)
            ELSE InvokeNetwork(t, chatbots[chatbot_id].agent_network_id, NoOverrides)

InvokeChatbot(t, chatbot_id) ==
    /\ last' = [op |-> "chatbot.invoke", tenant |-> t, target |-> chatbot_id, payload |-> <<>>,
                result |-> ChatbotInvoke(t, chatbot_id)]
    /\ UNCHANGED <<agents, aimodels, tools, networks, nodeRows, edgeRows, ifaceRows, chatVars, run, registry>>

\* ChatThreadService._get_owned_thread: the chatbot first, then the thread
GetOwnedThread(t, chatbot_id, thread_id) ==
    IF ~ChatbotResolves(t, chatbot_id) THEN NotFoundBot
    ELSE IF /\ thread_id \in DOMAIN threads
            /\ threads[thread_id].chatbot_id = chatbot_id
            /\ threads[thread_id].tenant = t
            /\ threads[thread_id].status # "deleted"
    THEN Ok
    ELSE NotFoundThread

\* ChatThreadService.create
CreateThread(t, chatbot_id) ==
    /\ LET r == IF ChatbotResolves(t, chatbot_id) THEN Ok ELSE NotFoundBot
           id == IF UnusedThreadIds # <<>> THEN Head(UnusedThreadIds) ELSE NoId
       IN /\ r.raised = "none" => id # NoId
          /\ IF r.raised = "none"
             THEN threads' = [h \in DOMAIN threads \cup {id} |->
                                IF h = id
                                THEN [tenant |-> t, chatbot_id |-> chatbot_id, status |-> "active"]
                                ELSE threads[h]]
             ELSE UNCHANGED threads
          /\ last' = [op |-> "thread.create", tenant |-> t,
                      target |-> IF r.raised = "none" THEN id ELSE NoId,
                      payload |-> chatbot_id, result |-> r]
    /\ UNCHANGED <<agents, aimodels, tools, networks, nodeRows, edgeRows, ifaceRows,
                   chatbots, messages, pending, run, registry>>

\* ChatThreadService.delete
DeleteThread(t, chatbot_id, thread_id) ==
    /\ IF GetOwnedThread(t, chatbot_id, thread_id).raised = "none"
       THEN threads' = [threads EXCEPT ![thread_id].status = "deleted"]
       ELSE UNCHANGED threads
    /\ last' = [op |-> "thread.delete", tenant |-> t, target |-> thread_id,
                payload |-> chatbot_id, result |-> GetOwnedThread(t, chatbot_id, thread_id)]
    /\ UNCHANGED <<agents, aimodels, tools, networks, nodeRows, edgeRows, ifaceRows,
                   chatbots, messages, pending, run, registry>>

ChatMessage(t, thread_id, role, text) ==
    [tenant |-> t, thread_id |-> thread_id, role |-> role, text |-> text]

\* a turn that stores no user message
WithoutUserMessage(t, thread_id, text) == messages

\* ChatThreadService.create_user_message: the table after db.add(msg) and commit
WithUserMessage(t, thread_id, text) ==
    Append(messages, ChatMessage(t, thread_id, "user", text))

\* ChatThreadService.create_user_message
CreateUserMessage(t, chatbot_id, thread_id, text) ==
    /\ Len(messages) < MaxMessages
    /\ LET r == GetOwnedThread(t, chatbot_id, thread_id)
       IN /\ IF r.raised = "none"
             THEN messages' = WithUserMessage(t, thread_id, text)
             ELSE UNCHANGED messages
          /\ last' = [op |-> "thread.user_message", tenant |-> t, target |-> thread_id,
                      payload |-> chatbot_id, result |-> r]
    /\ UNCHANGED <<agents, aimodels, tools, networks, nodeRows, edgeRows, ifaceRows,
                   chatbots, threads, pending, run, registry>>

\* ChatThreadService.invoke up to the commit of create_user_message: the
\* thread is resolved and the user message of the turn is stored
ThreadInvokeUser(t, chatbot_id, thread_id, text) ==
    /\ Len(messages) + 1 < MaxMessages
    /\ Cardinality(pending) < MaxPending
    /\ LET r == GetOwnedThread(t, chatbot_id, thread_id)
       IN /\ IF r.raised = "none"
             THEN /\ messages' = WithUserMessage(t, thread_id, text)
                  /\ pending' = pending \cup {[tenant |-> t, chatbot_id |-> chatbot_id,
                                                thread_id |-> thread_id, at |-> Len(messages')]}
             ELSE UNCHANGED <<messages, pending>>
          /\ last' = [op |-> IF r.raised = "none" THEN "thread.turn" ELSE "thread.invoke",
                      tenant |-> t, target |-> thread_id, payload |-> chatbot_id,
                      result |-> ExecRaise(r.raised, r.detail)]
    /\ UNCHANGED <<agents, aimodels, tools, networks, nodeRows, edgeRows, ifaceRows,
                   chatbots, threads, run, registry>>

\* ChatThreadService.invoke after create_user_message: what the rest of the
\* handler returns or raises
ThreadInvokeRest(turn) ==
    IF ~ChatbotResolves(turn.tenant, turn.chatbot_id)
    THEN ExecRaise(NotFoundBot.raised, NotFoundBot.detail)
    ELSE LET bot == chatbots[turn.chatbot_id]
             b == EnsureNetworkBinding(turn.tenant, bot.agent_network_id, bot.agent_network_version)
         IN IF b.raised # "none" THEN ExecRaise(b.raised, b.detail)
            ELSE InvokeNetwork(turn.tenant, bot.agent_network_id, NoOverrides)

\* ChatThreadService.invoke from the lookup of the chatbot to the end: the
\* binding check, the network invocation and, when it returned, the commit of
\* the assistant message
ThreadInvokeNetwork(turn) ==
    /\ turn \in pending
    /\ pending' = pending \ {turn}
    /\ LET r == ThreadInvokeRest(turn)
       IN /\ IF r.raised = "none"
             THEN messages' = Append(messages, ChatMessage(turn.tenant, turn.thread_id,
                                                           "assistant", <<"answer">>))
             ELSE UNCHANGED messages
          /\ last' = [op |-> "thread.invoke", tenant |-> turn.tenant, target |-> turn.thread_id,
                      payload |-> turn.chatbot_id, result |-> r]
    /\ UNCHANGED <<agents, aimodels, tools, networks, nodeRows, edgeRows, ifaceRows,
                   chatbots, threads, run, registry>>

\* ------------------------------------------------ specification of chatbots and threads

BotPayload(name, net, version) ==
    [name |-> name, slug |-> name, is_enabled |-> TRUE, agent_network_id |-> net,
     agent_network_version |-> version]

\* create payloads: a good one, one without a name, one on a network that does
\* not exist and one on a version that is not stored
BotPayloads ==
    {BotPayload(<<"bot", " ">>, "n1", <<"1">>), BotPayload(<<>>, "n1", <<"1">>),
     BotPayload(<<"bot">>, "n9", <<"1">>), BotPayload(<<"bot">>, "n1", <<"2">>)}

\* a tenant with an LLM model, an agent and an enabled standalone network
\* around the agent; chatbots and threads are created on it
InitChat ==
    /\ agents = [a \in {"a1"} |-> LiveAgent("t1", "m1", <<a>>)]
    /\ aimodels = [m \in {"m1"} |-> LlmModel("t1")]
    /\ tools = <<>>
    /\ networks = [n \in {"n1"} |->
                     [tenant |-> "t1", slug |-> <<"s">>, version |-> <<"1">>, deleted |-> FALSE,
                      is_enabled |-> TRUE, spec |-> StandaloneSpec]]
    /\ nodeRows = NodeRowsOf("n1", StandaloneSpec)
    /\ edgeRows = {}
    /\ ifaceRows = {}
    /\ last = NoCall
    /\ NoChat
    /\ registry = Registered

NextChat ==
    \/ \E payload \in BotPayloads : CreateChatbot("t1", payload)
    \/ DeleteChatbot("t1", "c1")
    \/ CreateThread("t1", "c1")
    \/ DeleteThread("t1", "c1", "h1")
    \/ CreateUserMessage("t1", "c1", "h2", <<"q">>)
    \/ ThreadInvokeUser("t1", "c1", "h1", <<"q">>)
    \/ \E turn \in pending : ThreadInvokeNetwork(turn)
    \/ \E payload \in EnableToggles : UpdateNetwork("t1", "n1", payload)
    \/ DeleteNetwork("t1", "n1")
    \/ DeleteAgent("t1", "a1")

SpecChat == InitChat /\ [][NextChat]_vars

\* ------------------------------------------------ properties of chatbots and threads

\* the messages of role r among the first k messages of thread h
CountRole(h, r, k) ==
    Cardinality({i \in 1..k : messages[i].thread_id = h /\ messages[i].role = r})

\* a step that ends a thread turn: the part of the handler after the user message
EndsTurn(turn) == turn \in pending /\ turn \notin pending'

\* C19: a thread turn stores its user message before it invokes the network
\* and stores an assistant message only after the network returned; when the
\* binding check or the invocation fails, the user message stays and no
\* assistant message is stored; no thread ever holds more assistant messages
\* than user messages.
C19_TurnOrder ==
    /\ [](\A h \in DOMAIN threads : \A k \in 0..Len(messages) :
              CountRole(h, "assistant", k) <= CountRole(h, "user", k))
    /\ [][ /\ Len(messages') >= Len(messages)
           /\ SubSeq(messages', 1, Len(messages)) = messages
           /\ Len(messages') <= Len(messages) + 1
           /\ \A turn \in pending :
                 /\ turn.at \in 1..Len(messages)
                 /\ messages[turn.at] = ChatMessage(turn.tenant, turn.thread_id, "user", <<"q">>)
                 /\ EndsTurn(turn) =>
                       /\ last'.op = "thread.invoke"
                       /\ last'.result.raised = "none" =>
                             /\ last'.result.called # <<>>
                             /\ messages' = Append(messages, ChatMessage(turn.tenant,
                                                turn.thread_id, "assistant", <<"answer">>))
                       /\ last'.result.raised # "none" => messages' = messages
           /\ (Len(messages') > Len(messages) /\ messages'[Len(messages')].role = "assistant") =>
                 /\ \E turn \in pending : EndsTurn(turn)
                 /\ last'.op = "thread.invoke" /\ last'.result.raised = "none"
         ]_vars

\* a turn whose network was disabled after the user message was stored failed
\* on the binding check and left the user message alone in the thread
C19_Witness ==
    /\ last.op = "thread.invoke"
    /\ last.result.raised = "ChatbotInvalid"
    /\ pending = {}
    /\ messages = <<ChatMessage("t1", "h1", "user", <<"q">>)>>

\* a turn stored its user message and then the assistant message
C19_WitnessAnswered ==
    /\ last.op = "thread.invoke"
    /\ last.result.raised = "none"
    /\ messages = <<ChatMessage("t1", "h1", "user", <<"q">>),
                    ChatMessage("t1", "h1", "assistant", <<"answer">>)>>

\* a turn failed inside the network invocation: the agent had been deleted
C19_WitnessInvocationFailed ==
    /\ last.op = "thread.invoke"
    /\ last.result.raised = "AgentNotFound"
    /\ Len(messages) = 1

\* C17: deleting an agent that a network node references fails, and deleting a
\* network that a chatbot or a node of a parent network references fails; the
\* agent, respectively the network, stays resolvable.
C17_ReferencedDeleteBlocked ==
    [][\A t \in Tenants :
        /\ \A a \in AgentIds :
              ( /\ last'.op = "agent.delete" /\ last'.tenant = t /\ last'.target = a
                /\ AgentResolves(t, a)
                /\ \E row \in nodeRows : row.agent_id = a )
              => /\ last'.result.raised # "none"
                 /\ AgentResolves(t, a)'
        /\ \A n \in NetIds :
              ( /\ last'.op = "network.delete" /\ last'.tenant = t /\ last'.target = n
                /\ NetworkResolves(t, n)
                /\ \/ \E c \in DOMAIN chatbots : chatbots[c].agent_network_id = n
                   \/ \E row \in nodeRows : row.child_network_id = n )
              => /\ last'.result.raised # "none"
                 /\ NetworkResolves(t, n)'
      ]_vars

\* the agent of a node of a stored network was deleted and no longer resolves
C17_Witness ==
    /\ last.op = "agent.delete"
    /\ last.result.raised = "none"
    /\ \E row \in nodeRows : row.agent_id = last.target /\ NetworkResolves("t1", row.network_id)
    /\ ~AgentResolves("t1", last.target)

\* the network of a live chatbot was deleted and no longer resolves
C17_WitnessNetwork ==
    /\ last.op = "network.delete"
    /\ last.result.raised = "none"
    /\ \E c \in DOMAIN chatbots : ChatbotResolves("t1", c) /\ chatbots[c].agent_network_id = last.target
    /\ ~NetworkResolves("t1", last.target)

\* ------------------------------------------------ properties of the denormalised rows

\* what the node rows and the edge rows of network n say
RowNodes(rows, n) ==
    {<<row.node_key, row.agent_id, row.child_network_id>> : row \in {x \in rows : x.network_id = n}}
RowEdges(rows, n) ==
    {<<row.source_node_key, row.target_node_key>> : row \in {x \in rows : x.network_id = n}}

\* what a spec says
SpecNodes(spec) ==
    {<<spec.nodes[i].node_key, spec.nodes[i].agent_id, spec.nodes[i].child_network_id>> :
        i \in 1..Len(spec.nodes)}

\* C18: after a create or an update of a network that succeeded, the node
\* rows of the network are the nodes of its stored spec (node_key with its
\* agent or child-network reference) and its edge rows are the (source,
\* target) pairs of the edges of its stored spec.
C18_RowsMatchStoredSpec ==
    [][\A n \in NetIds :
          ( /\ last'.op \in {"network.create", "network.update"}
            /\ last'.target = n
            /\ last'.result.raised = "none" )
          => /\ RowNodes(nodeRows', n) = SpecNodes(networks'[n].spec)
             /\ RowEdges(edgeRows', n) = EdgeRel(networks'[n].spec)
      ]_vars

\* an update stored a spec of two nodes and an edge while the rows of the
\* network still are the one node of the spec it was created with
C18_Witness ==
    /\ last.op = "network.update"
    /\ last.result.raised = "none"
    /\ last.payload.spec # <<>>
    /\ Len(networks[last.target].spec.nodes) = 2
    /\ Cardinality(RowNodes(nodeRows, last.target)) = 1
    /\ RowEdges(edgeRows, last.target) = {}
    /\ EdgeRel(networks[last.target].spec) = {<<"A", "B">>}

\* the rows a create wrote are those of the spec it stored
C18_WitnessCreate ==
    /\ last.op = "network.create"
    /\ last.result.raised = "none"
    /\ RowNodes(nodeRows, last.target) = SpecNodes(networks[last.target].spec)
    /\ RowEdges(edgeRows, last.target) = {<<"A", "B">>}

\* ------------------------------------------------ specification of tenant isolation

\* per kind of entity: the id tenant t1 owns, the id tenant t2 owns and an id
\* that no row has
IdsOfAgents == {"a1", "a2", "a9"}
IdsOfModels == {"m1", "m2", "m9"}
IdsOfTools == {"T1", "T2", "T9"}
IdsOfNetworks == {"n1", "n2", "n9"}
IdsOfBots == {"c1", "c2", "c9"}

OwnerOf(x) == IF x \in {"a1", "m1", "T1", "n1", "c1", "h1"} THEN "t1" ELSE "t2"

SpecOn(agent_id) ==
    [type |-> "standalone", nodes |-> <<Node("A", agent_id, NoId)>>, edges |-> <<>>,
     swarm |-> NoSwarmCfg, interface |-> NoId]

\* two tenants, each with a model, a tool, an agent bound to the tool, a
\* standalone network around the agent, a chatbot on the network and a thread
InitTenant ==
    /\ agents = [a \in {"a1", "a2"} |->
                   [LiveAgent(OwnerOf(a), IF a = "a1" THEN "m1" ELSE "m2", <<a>>)
                       EXCEPT !.bound = <<IF a = "a1" THEN "T1" ELSE "T2">>]]
    /\ aimodels = [m \in {"m1", "m2"} |-> LlmModel(OwnerOf(m))]
    /\ tools = [x \in {"T1", "T2"} |-> LiveTool(OwnerOf(x), "sql.select")]
    /\ networks = [n \in {"n1", "n2"} |->
                     [tenant |-> OwnerOf(n), slug |-> <<"s">>, version |-> <<"1">>,
                      deleted |-> FALSE, is_enabled |-> TRUE,
                      spec |-> SpecOn(IF n = "n1" THEN "a1" ELSE "a2")]]
    /\ nodeRows = NodeRowsOf("n1", SpecOn("a1")) \cup NodeRowsOf("n2", SpecOn("a2"))
    /\ edgeRows = {}
    /\ ifaceRows = {}
    /\ chatbots = [c \in {"c1", "c2"} |->
                     [tenant |-> OwnerOf(c), name |-> <<"bot">>, slug |-> <<"bot">>,
                      deleted |-> FALSE, is_enabled |-> TRUE,
                      agent_network_id |-> IF c = "c1" THEN "n1" ELSE "n2",
                      agent_network_version |-> <<"1">>]]
    /\ threads = [h \in {"h1", "h2"} |->
                    [tenant |-> OwnerOf(h), chatbot_id |-> IF h = "h1" THEN "c1" ELSE "c2",
                     status |-> "active"]]
    /\ messages = <<>>
    /\ pending = {}
    /\ run = NoSwarmRun
    /\ registry = Registered
    /\ last = NoCall

NoToolChange == [is_enabled |-> <<>>, bindings |-> <<>>, config |-> <<>>]
NoBotChange == [is_enabled |-> <<>>, agent_network_id |-> <<>>, agent_network_version |-> <<>>]

\* the ids that are not tenant t1's
NotMine(ids) == ids \ {"a1", "m1", "T1", "n1", "c1"}

\* tenant t1 calls every operation that takes an id with the id of tenant t2
\* and with an id that does not exist; the reads, the invocations and the
\* deletes of agents, tools and chatbots also with its own id
NextTenant ==
    \/ \E a \in IdsOfAgents :
          \/ GetAgent("t1", a)
          \/ DeleteAgent("t1", a)
          \/ ValidateAgent("t1", a)
          \/ InvokeAgent("t1", a, NoOverrides)
    \/ \E a \in NotMine(IdsOfAgents) :
          \/ UpdateAgent("t1", a, [NoAgentChange EXCEPT !.is_enabled = <<FALSE>>])
          \/ SetAgentEnabled("t1", a, FALSE)
    \/ \E x \in IdsOfTools :
          \/ InvokeTool("t1", x, [limit |-> <<>>, where |-> {}])
          \/ DeleteTool("t1", x)
    \/ \E x \in NotMine(IdsOfTools) :
          \/ UpdateTool("t1", x, [NoToolChange EXCEPT !.is_enabled = <<FALSE>>])
          \/ SetToolEnabled("t1", x, FALSE)
    \/ \E m \in IdsOfModels : GetModel("t1", m)
    \/ \E m \in NotMine(IdsOfModels) :
          \/ UpdateModel("t1", m, [is_enabled |-> <<FALSE>>, config |-> <<>>])
          \/ DeleteModel("t1", m)
    \/ \E n \in IdsOfNetworks :
          \/ ValidateNetworkCall("t1", n)
          \/ InvokeNetworkCall("t1", n, NoOverrides)
    \/ \E n \in NotMine(IdsOfNetworks) :
          \/ UpdateNetwork("t1", n, [is_enabled |-> <<FALSE>>, spec |-> <<>>])
          \/ DeleteNetwork("t1", n)
    \/ \E c \in IdsOfBots :
          \/ GetChatbot("t1", c)
          \/ DeleteChatbot("t1", c)
          \/ InvokeChatbot("t1", c)
          \/ ThreadInvokeUser("t1", c, "h1", <<"q">>)
    \/ \E c \in NotMine(IdsOfBots) :
          \/ UpdateChatbot("t1", c, [NoBotChange EXCEPT !.agent_network_id = <<"n1">>])
          \/ SetChatbotEnabled("t1", c, FALSE)
          \/ CreateThread("t1", c)
          \/ DeleteThread("t1", c, "h1")
          \/ CreateUserMessage("t1", c, "h1", <<"q">>)
    \/ \E turn \in pending : ThreadInvokeNetwork(turn)

SpecTenant == InitTenant /\ [][NextTenant]_vars

\* ------------------------------------------------ properties of tenant isolation

AgentOps == {"agent.get", "agent.update", "agent.delete", "agent.set_enabled",
             "agent.validate", "agent.invoke"}
ToolOps == {"tool.invoke", "tool.update", "tool.delete", "tool.set_enabled"}
ModelOps == {"model.get", "model.update", "model.delete"}
NetworkOps == {"network.update", "network.delete", "network.validate", "network.invoke"}
BotOps == {"chatbot.get", "chatbot.update", "chatbot.delete", "chatbot.set_enabled",
           "chatbot.invoke"}
ThreadOps == {"thread.create", "thread.delete", "thread.user_message", "thread.invoke",
              "thread.turn"}

\* the row of id x in a table is none of tenant t's: another tenant owns it, or no row has the id
NotOwn(table, t, x) == x \notin DOMAIN table \/ table[x].tenant # t

\* the not-found error of the kind of entity a call addresses, when the id it
\* was given is not the caller's; "none" when the id is the caller's
ExpectedNotFound(call) ==
    IF call.op \in AgentOps /\ NotOwn(agents, call.tenant, call.target)
    THEN Raise("AgentNotFound", "Agent not found")
    ELSE IF call.op \in ToolOps /\ NotOwn(tools, call.tenant, call.target)
    THEN Raise("AgentToolNotFound", "Agent Tool not found")
    ELSE IF call.op \in ModelOps /\ NotOwn(aimodels, call.tenant, call.target)
    THEN Raise("AIModelNotFound", "AI Model not found")
    ELSE IF call.op \in NetworkOps /\ NotOwn(networks, call.tenant, call.target)
    THEN Raise("AgentNetworkNotFound", "Agent network not found")
    ELSE IF call.op \in BotOps /\ NotOwn(chatbots, call.tenant, call.target)
    THEN Raise("ChatbotNotFound", "Chatbot not found")
    ELSE IF call.op \in ThreadOps /\ NotOwn(chatbots, call.tenant, call.payload)
    THEN Raise("ChatbotNotFound", "Chatbot not found")
    ELSE Ok

\* the rows of a table that tenant t does not own
RowsOfOthers(table, t) == [x \in {y \in DOMAIN table : table[y].tenant # t} |-> table[x]]

\* C20: an operation that is given the id of an agent, tool, model, network or
\* chatbot of another tenant raises the not-found error of that kind, the one
\* it raises for an id that no row has, and changes no row; no call of a
\* tenant changes a row of another tenant; a reference in a payload to an
\* entity of another tenant is refused as one to an entity that does not exist.
C20_ForeignIdIsNotFound ==
    /\ [][ /\ ExpectedNotFound(last').raised # "none" =>
                 /\ last'.result.raised = ExpectedNotFound(last').raised
                 /\ last'.result.detail = ExpectedNotFound(last').detail
                 /\ UNCHANGED <<agents, aimodels, tools, networks, nodeRows, edgeRows,
                                ifaceRows, chatbots, threads, messages, pending>>
           /\ \A t \in Tenants :
                 last'.tenant = t =>
                     /\ RowsOfOthers(agents, t)' = RowsOfOthers(agents, t)
                     /\ RowsOfOthers(aimodels, t)' = RowsOfOthers(aimodels, t)
                     /\ RowsOfOthers(tools, t)' = RowsOfOthers(tools, t)
                     /\ RowsOfOthers(networks, t)' = RowsOfOthers(networks, t)
                     /\ RowsOfOthers(chatbots, t)' = RowsOfOthers(chatbots, t)
                     /\ RowsOfOthers(threads, t)' = RowsOfOthers(threads, t)
         ]_vars
    /\ [](/\ \A e \in BOOLEAN : EnsureLlmModel("t1", "m2", e) = EnsureLlmModel("t1", "m9", e)
          /\ EnsureToolsExist("t1", <<"T2">>) = EnsureToolsExist("t1", <<"T9">>)
          /\ EnsureNodeReferenceExists("t1", Node("A", "a2", NoId))
                = EnsureNodeReferenceExists("t1", Node("A", "a9", NoId))
          /\ EnsureNodeReferenceExists("t1", Node("A", NoId, "n2"))
                = EnsureNodeReferenceExists("t1", Node("A", NoId, "n9"))
          /\ EnsureNetworkBinding("t1", "n2", <<"1">>) = EnsureNetworkBinding("t1", "n9", <<"1">>))

\* tenant t1 asked to delete the live, enabled chatbot of tenant t2 and got
\* ChatbotNotFound; the chatbot is as it was
C20_Witness ==
    /\ last.op = "chatbot.delete"
    /\ last.tenant = "t1"
    /\ last.target = "c2"
    /\ last.result = NotFoundBot
    /\ ChatbotResolves("t2", "c2")
    /\ chatbots["c2"].is_enabled

\* tenant t1 invoked the network of tenant t2 and got AgentNetworkNotFound
C20_WitnessNetwork ==
    /\ last.op = "network.invoke"
    /\ last.target = "n2"
    /\ last.result.raised = "AgentNetworkNotFound"
    /\ NetworkResolves("t2", "n2")

\* a thread turn on the chatbot of tenant t2 got ChatbotNotFound and stored no message
C20_WitnessThread ==
    /\ last.op = "thread.invoke"
    /\ last.payload = "c2"
    /\ last.result.raised = "ChatbotNotFound"
    /\ messages = <<>>

\* ------------------------------------------------ specification of tool configs

ConfigMaxRows == {<<>>, <<0>>, <<5000>>, <<5001>>}
ConfigTimeouts == {<<>>, <<0>>, <<61>>}
ConfigTopKs == {<<0>>, <<1>>, <<1000>>, <<1001>>}

\* configs of a sql.select tool and of a vector.similarity_search tool
ToolConfigs(kind) ==
    IF kind = "sql.select"
    THEN [max_rows : ConfigMaxRows, query_timeout_s : ConfigTimeouts, top_k : {<<>>},
          allowed_predicates : {{}}]
    ELSE [max_rows : {<<>>}, query_timeout_s : {<<>>}, top_k : ConfigTopKs,
          allowed_predicates : {{}}]

ToolKinds == {"sql.select", "vector.similarity_search"}

ToolCreatePayloads ==
    UNION {[name : {<<"x">>, <<"y", " ">>}, kind : {kind}, provider : {NoId},
            is_enabled : {TRUE}, primary : BOOLEAN, config : ToolConfigs(kind)] :
           kind \in ToolKinds}

\* a tenant without tools
InitToolConfig ==
    /\ agents = <<>>
    /\ aimodels = <<>>
    /\ tools = <<>>
    /\ networks = <<>>
    /\ nodeRows = {}
    /\ edgeRows = {}
    /\ ifaceRows = {}
    /\ last = NoCall
    /\ NoChat
    /\ registry = Registered

NextToolConfig ==
    \/ \E payload \in ToolCreatePayloads : CreateTool("t1", payload)
    \/ \E kind \in ToolKinds : \E cfg \in ToolConfigs(kind) : \E b \in {<<>>, <<FALSE>>} :
          UpdateTool("t1", "T1", [is_enabled |-> <<>>, bindings |-> b, config |-> <<cfg>>])
    \/ DeleteTool("t1", "T1")

SpecToolConfig == InitToolConfig /\ [][NextToolConfig]_vars

\* the bounds SQLSelectConfig and VectorSimilaritySearchConfig put on the keys
\* of a config (an absent key takes its default, which is within bounds)
Within(v, lo, hi) == v = <<>> \/ (lo <= v[1] /\ v[1] <= hi)
ConfigInBounds(kind, config) ==
    IF kind = "sql.select"
    THEN Within(config.max_rows, 1, 5000) /\ Within(config.query_timeout_s, 1, 60)
    ELSE Within(config.top_k, 1, 1000)

\* the kind whose bounds apply to the config of the last create or update
LastToolKind ==
    IF last.op = "tool.create" THEN last.payload.kind ELSE tools[last.target].kind
LastToolConfig ==
    IF last.op = "tool.create" THEN last.payload.config ELSE last.payload.config[1]

\* C21: a create or update of a tool whose config is out of bounds for its
\* kind (sql.select: max_rows outside [1,5000] or query_timeout_s outside
\* [1,60]; vector.similarity_search: top_k outside [1,1000]) is rejected with
\* an error.
C21_OutOfBoundsConfigRejected ==
    ( /\ last.op \in {"tool.create", "tool.update"}
      /\ last.op = "tool.update" => last.target \in DOMAIN tools
      /\ ~ConfigInBounds(LastToolKind, LastToolConfig) )
        => last.result.raised # "none"

\* a sql.select tool was created with max_rows 5001 and stored
C21_Witness ==
    /\ last.op = "tool.create"
    /\ last.payload.kind = "sql.select"
    /\ last.payload.config.max_rows = <<5001>>
    /\ last.result.raised = "none"
    /\ tools[last.target].config.max_rows = <<5001>>

\* an update stored top_k 0 on a live vector.similarity_search tool
C21_WitnessUpdate ==
    /\ last.op = "tool.update"
    /\ last.result.raised = "none"
    /\ tools[last.target].kind = "vector.similarity_search"
    /\ last.payload.config[1].top_k = <<0>>
    /\ tools[last.target].config.top_k = <<0>>

\* ------------------------------------------------ invocations in progress

\* AgentService.invoke up to create_react_agent: the agent row, the model and
\* the tool rows (tool_meta) are read, and the wrappers of the exposed tools
\* are built.  A wrapper keeps the tool id only; at_start records what a call
\* of it would do with the rows as they are now.
AgentInvokeStart(t, agent_id) ==
    /\ pending = {}
    /\ LET r == AgentInvoke(t, agent_id, NoOverrides)
       IN /\ pending' = IF r.ran
                        THEN {[tenant |-> t, agent_id |-> agent_id, exposed |-> r.exposed,
                               at_start |-> [x \in Range(r.exposed) |->
                                               [args \in CallArgs |-> LangchainToolCall(t, x, args)]]]}
                        ELSE pending
          /\ last' = [op |-> "agent.invoke", tenant |-> t, target |-> agent_id,
                      payload |-> NoOverrides, result |-> r]
    /\ UNCHANGED <<agents, aimodels, tools, networks, nodeRows, edgeRows, ifaceRows,
                   chatbots, threads, messages, run, registry>>

\* What svc.invoke(tool_id, payload) can return when the model loop calls a
\* wrapper.  _get_owned runs its query at the time of the call, in the session
\* that loaded the tool rows at the start: the row filter (tenant, deleted_at)
\* sees the table as the transaction isolation of the database lets it (now,
\* or as at the start), and the attributes of a row the session already holds
\* are those it loaded or those of the row now.
ToolCallOutcomes(inv, tool_id, args) ==
    LET stale == inv.at_start[tool_id][args]
        live == LangchainToolCall(inv.tenant, tool_id, args)
        mixed == IF ~ToolResolves(inv.tenant, tool_id)
                 THEN ToolRaise("AgentToolNotFound", "Agent Tool not found")
                 ELSE stale
    IN {live, mixed, stale}

\* the model loop of an invocation in progress calls one of its tools
FlightToolCall(inv, tool_id, args) ==
    /\ inv \in pending
    /\ tool_id \in Range(inv.exposed)
    /\ \E result \in ToolCallOutcomes(inv, tool_id, args) :
          last' = [op |-> "agent.tool_call", tenant |-> inv.tenant, target |-> tool_id,
                   payload |-> [args |-> args, at_start |-> inv.at_start[tool_id][args]],
                   result |-> result]
    /\ UNCHANGED <<agents, aimodels, tools, networks, nodeRows, edgeRows, ifaceRows,
                   chatVars, run, registry>>

\* agent_graph.invoke returns and AgentService.invoke with it
AgentInvokeReturn(inv) ==
    /\ inv \in pending
    /\ pending' = pending \ {inv}
    /\ last' = [op |-> "agent.return", tenant |-> inv.tenant, target |-> inv.agent_id,
                payload |-> <<>>, result |-> Ok]
    /\ UNCHANGED <<agents, aimodels, tools, networks, nodeRows, edgeRows, ifaceRows,
                   chatbots, threads, messages, run, registry>>

FlightConfigs ==
    {[NoToolConfig EXCEPT !.max_rows = <<1>>],
     [NoToolConfig EXCEPT !.allowed_predicates = {"id"}]}

\* agent a1 of tenant t1 bound to the sql.select tools T1 and T2
InitFlight ==
    /\ agents = [a \in {"a1"} |-> [LiveAgent("t1", "m1", <<a>>) EXCEPT !.bound = <<"T1", "T2">>]]
    /\ aimodels = [m \in {"m1"} |-> LlmModel("t1")]
    /\ tools = [x \in {"T1", "T2"} |-> [LiveTool("t1", "sql.select") EXCEPT !.name = <<x>>]]
    /\ networks = <<>>
    /\ nodeRows = {}
    /\ edgeRows = {}
    /\ ifaceRows = {}
    /\ last = NoCall
    /\ NoChat
    /\ registry = Registered

NextFlight ==
    \/ AgentInvokeStart("t1", "a1")
    \/ \E inv \in pending : \E x \in {"T1", "T2"} : \E args \in CallArgs :
          FlightToolCall(inv, x, args)
    \/ \E inv \in pending : AgentInvokeReturn(inv)
    \/ \E enabled \in BOOLEAN : SetToolEnabled("t1", "T1", enabled)
    \/ DeleteTool("t1", "T1")
    \/ \E cfg \in FlightConfigs :
          UpdateTool("t1", "T1", [is_enabled |-> <<>>, bindings |-> <<>>, config |-> <<cfg>>])
    \/ \E enabled \in BOOLEAN : SetAgentEnabled("t1", "a1", enabled)
    \/ DeleteAgent("t1", "a1")

SpecFlight == InitFlight /\ [][NextFlight]_vars

\* C22: a tool call of an invocation in progress does what it would have done
\* with the configuration read when the invocation started, whatever other
\* requests committed since.
C22_FlightUsesStartConfig ==
    (last.op = "agent.tool_call" /\ pending # {}) => last.result = last.payload.at_start

\* the tool T1 was enabled and live when the invocation started, was
\* soft-deleted since, and the call of its wrapper raised AgentToolNotFound
C22_Witness ==
    /\ last.op = "agent.tool_call"
    /\ pending # {}
    /\ last.target = "T1"
    /\ last.payload.at_start.handed
    /\ tools["T1"].deleted
    /\ last.result = ToolRaise("AgentToolNotFound", "Agent Tool not found")

\* the agent was disabled and soft-deleted while its invocation was in
\* progress, and a tool call of the invocation went through as at the start
C22_WitnessAgent ==
    /\ last.op = "agent.tool_call"
    /\ pending # {}
    /\ agents["a1"].deleted
    /\ ~agents["a1"].is_enabled
    /\ last.result.handed
    /\ last.result = last.payload.at_start

\* ------------------------------------------------ prompt rendering

\* A text is a sequence of symbols; "{{", "}}", "input" and "variables." are
\* symbols of their own, so that a placeholder is a text of several symbols.
InputPlaceholder == <<"{{", "input", "}}">>
VarPlaceholder(k) == <<"{{", "variables.", k, "}}">>

IsPrefix(pat, text) == Len(pat) <= Len(text) /\ SubSeq(text, 1, Len(pat)) = pat

\* str.replace(old, new) for a non-empty old: the non-overlapping occurrences
\* of old, found from the left, are replaced
RECURSIVE Replace(_, _, _)
Replace(text, old, new) ==
    IF Len(text) < Len(old) THEN text
    ELSE IF IsPrefix(old, text)
    THEN new \o Replace(SubSeq(text, Len(old) + 1, Len(text)), old, new)
    ELSE <<Head(text)>> \o Replace(Tail(text), old, new)

\* the loop of _render_prompt over variables.items(), a sequence of <<k, v>>
\* in the order of the dict
RECURSIVE ReplaceVariables(_, _, _)
ReplaceVariables(rendered, variables, i) ==
    IF i > Len(variables) THEN rendered
    ELSE ReplaceVariables(Replace(rendered, VarPlaceholder(variables[i][1]), variables[i][2]),
                          variables, i + 1)

\* AgentService._render_prompt
RenderPrompt(template, input_text, variables) ==
    ReplaceVariables(Replace(template, InputPlaceholder, input_text), variables, 1)

\* AgentService.invoke: rendered_prompt
RenderedPrompt(prompt_template, input, variables) ==
    RenderPrompt(Strip(prompt_template), Strip(input), variables)

RenderTemplates ==
    {<<"Q", ":">> \o InputPlaceholder,
     InputPlaceholder \o VarPlaceholder("a"),
     VarPlaceholder("a") \o <<" ">> \o VarPlaceholder("b"),
     VarPlaceholder("b") \o InputPlaceholder \o VarPlaceholder("a"),
     <<"{{", "input">>,
     <<" ", "Q">>,
     <<>>}
RenderInputs ==
    {<<>>, <<"hi">>, <<" ", "hi", " ">>, VarPlaceholder("a"), InputPlaceholder,
     <<"{{", "variables.">>}
RenderValues == {<<"va">>, VarPlaceholder("b"), InputPlaceholder, <<"a", "}}">>}
RenderVariables ==
    {<<>>}
    \cup {<<<<"a", v>>>> : v \in RenderValues}
    \cup {<<<<"a", v>>, <<"b", <<"vb">>>>>> : v \in RenderValues}
    \cup {<<<<"b", <<"vb">>>>, <<"a", v>>>> : v \in RenderValues}

\* the template of an agent, an input and variables; nothing is rendered yet
InitRender ==
    /\ agents = <<>>
    /\ aimodels = <<>>
    /\ tools = <<>>
    /\ networks = <<>>
    /\ nodeRows = {}
    /\ edgeRows = {}
    /\ ifaceRows = {}
    /\ NoChat
    /\ registry = Registered
    /\ \E template \in RenderTemplates, input \in RenderInputs, variables \in RenderVariables :
          last = [op |-> "agent.prompt", tenant |-> "t1", target |-> NoId,
                  payload |-> [prompt_template |-> template, input |-> input,
                               variables |-> variables],
                  result |-> Ok]

Render ==
    /\ last.op = "agent.prompt"
    /\ last' = [last EXCEPT !.op = "agent.render",
                            !.result = [raised |-> "none", detail |-> "ok",
                                        prompt |-> RenderedPrompt(last.payload.prompt_template,
                                                                  last.payload.input,
                                                                  last.payload.variables)]]
    /\ UNCHANGED <<agents, aimodels, tools, networks, nodeRows, edgeRows, ifaceRows, chatVars, run, registry>>

NextRender == Render

SpecRender == InitRender /\ [][NextRender]_vars

\* the value supplied for the variable k, <<>> when there is none
Supplied(variables, k) ==
    LET Is(kv) == kv[1] = k IN SelectSeq(variables, Is)

\* one pass over the template: each placeholder of the template that has a
\* supplied value is replaced by it, and nothing that was put in is looked at
\* again
RECURSIVE OnePass(_, _, _)
OnePass(template, input_text, variables) ==
    IF template = <<>> THEN <<>>
    ELSE IF IsPrefix(InputPlaceholder, template)
    THEN input_text \o OnePass(SubSeq(template, 4, Len(template)), input_text, variables)
    ELSE IF /\ Len(template) >= 4
            /\ SubSeq(template, 1, 2) = <<"{{", "variables.">>
            /\ template[4] = "}}"
            /\ Supplied(variables, template[3]) # <<>>
    THEN Supplied(variables, template[3])[1][2]
         \o OnePass(SubSeq(template, 5, Len(template)), input_text, variables)
    ELSE <<Head(template)>> \o OnePass(Tail(template), input_text, variables)

\* C23: the rendered prompt is the template with {{input}} and each
\* {{variables.<key>}} that has a value replaced literally, once: what arrives
\* inside the input or inside a value is not substituted again, and a
\* placeholder without a value stays.
C23_RenderIsOnePass ==
    last.op = "agent.render" =>
        last.result.prompt = OnePass(Strip(last.payload.prompt_template),
                                     Strip(last.payload.input), last.payload.variables)

\* the input was the text {{variables.a}}, and the prompt holds the value of a in its place
C23_Witness ==
    /\ last.op = "agent.render"
    /\ last.payload.prompt_template = <<"Q", ":">> \o InputPlaceholder
    /\ last.payload.input = VarPlaceholder("a")
    /\ last.payload.variables = <<<<"a", <<"va">>>>>>
    /\ last.result.prompt = <<"Q", ":", "va">>

\* a placeholder without a value stayed, and {{input}} inside the input stayed
C23_WitnessVerbatim ==
    /\ last.op = "agent.render"
    /\ last.payload.prompt_template = InputPlaceholder \o VarPlaceholder("a")
    /\ last.payload.input = InputPlaceholder
    /\ last.payload.variables = <<>>
    /\ last.result.prompt = InputPlaceholder \o VarPlaceholder("a")

\* ------------------------------------------------ the tool adapter registry

\* Registry.register(kind, adapter, provider)
Register(kind, adapter, provider) ==
    /\ registry' = [key \in DOMAIN registry \cup {<<kind, provider>>} |->
                      IF key = <<kind, provider>> THEN adapter ELSE registry[key]]
    /\ last' = [op |-> "registry.register", tenant |-> NoId, target |-> NoId,
                payload |-> <<kind, provider, adapter>>, result |-> Ok]
    /\ UNCHANGED <<agents, aimodels, tools, networks, nodeRows, edgeRows, ifaceRows, chatVars, run>>

\* a call of Registry.get(kind, provider), as the tool service and the agent
\* runtime make it
Get(kind, provider) ==
    /\ last' = [op |-> "registry.get", tenant |-> NoId, target |-> NoId,
                payload |-> <<kind, provider>>,
                result |-> [raised |-> "none", detail |-> "ok",
                            adapter |-> RegistryGet(kind, provider)]]
    /\ UNCHANGED <<agents, aimodels, tools, networks, nodeRows, edgeRows, ifaceRows, chatVars,
                   run, registry>>

\* Registry.list(): the entries as kind, provider, adapter
List ==
    /\ last' = [op |-> "registry.list", tenant |-> NoId, target |-> NoId, payload |-> <<>>,
                result |-> [raised |-> "none", detail |-> "ok",
                            entries |-> {<<key[1], key[2], registry[key]>> : key \in DOMAIN registry}]]
    /\ UNCHANGED <<agents, aimodels, tools, networks, nodeRows, edgeRows, ifaceRows, chatVars,
                   run, registry>>

RegistryKinds == {"sql.select", "vector.similarity_search", "graph.query"}
RegistryProviders == {NoId, "postgres", "pinecone"}
AdapterNames == {"SqlSelectAdapter", "VectorSimilaritySearchAdapter", "PineconeSearchAdapter"}

\* the process after the import of the adapter modules
InitRegistry ==
    /\ agents = <<>>
    /\ aimodels = <<>>
    /\ tools = <<>>
    /\ networks = <<>>
    /\ nodeRows = {}
    /\ edgeRows = {}
    /\ ifaceRows = {}
    /\ last = NoCall
    /\ NoChat
    /\ registry = Registered

NextRegistry ==
    \/ \E kind \in {"sql.select", "vector.similarity_search"} :
       \E provider \in {NoId, "pinecone"} : \E adapter \in AdapterNames :
          Register(kind, adapter, provider)
    \/ \E kind \in RegistryKinds : \E provider \in RegistryProviders : Get(kind, provider)
    \/ List

SpecRegistry == InitRegistry /\ [][NextRegistry]_vars

\* C24: a lookup returns the adapter registered for exactly (kind, provider)
\* when there is one, otherwise the one registered for (kind, None), otherwise
\* nothing; no step removes an entry of the registry, and a lookup leaves the
\* registry as it is.
C24_LookupFallsBackToDefault ==
    /\ [](last.op = "registry.get" =>
            LET kind == last.payload[1]
                provider == last.payload[2]
            IN /\ <<kind, provider>> \in DOMAIN registry
                     => last.result.adapter = registry[<<kind, provider>>]
               /\ (<<kind, provider>> \notin DOMAIN registry /\ <<kind, NoId>> \in DOMAIN registry)
                     => last.result.adapter = registry[<<kind, NoId>>]
               /\ (<<kind, provider>> \notin DOMAIN registry /\ <<kind, NoId>> \notin DOMAIN registry)
                     => last.result.adapter = NoAdapter)
    /\ [][ /\ DOMAIN registry \subseteq DOMAIN registry'
           /\ last'.op \in {"registry.get", "registry.list"} => registry' = registry ]_vars

\* a lookup with a provider that has no entry of its own returned the default of the kind
C24_Witness ==
    /\ last.op = "registry.get"
    /\ last.payload = <<"sql.select", "postgres">>
    /\ <<"sql.select", "postgres">> \notin DOMAIN registry
    /\ last.result.adapter = registry[<<"sql.select", NoId>>]

\* a provider-specific entry won over the default of the kind
C24_WitnessOverride ==
    /\ last.op = "registry.get"
    /\ last.payload = <<"vector.similarity_search", "pinecone">>
    /\ <<"vector.similarity_search", "pinecone">> \in DOMAIN registry
    /\ registry[<<"vector.similarity_search", "pinecone">>] = "PineconeSearchAdapter"
    /\ registry[<<"vector.similarity_search", NoId>>] = "VectorSimilaritySearchAdapter"
    /\ last.result.adapter = "PineconeSearchAdapter"

\* a lookup of a kind without any entry returned nothing
C24_WitnessNothing ==
    /\ last.op = "registry.get"
    /\ last.payload[1] = "graph.query"
    /\ last.result.adapter = NoAdapter

\* ------------------------------------------------ thread queries

\* ChatThreadService.get
GetThread(t, chatbot_id, thread_id) ==
    /\ last' = [op |-> "thread.get", tenant |-> t, target |-> thread_id, payload |-> chatbot_id,
                result |-> GetOwnedThread(t, chatbot_id, thread_id)]
    /\ UNCHANGED <<agents, aimodels, tools, networks, nodeRows, edgeRows, ifaceRows, chatVars,
                   run, registry>>

\* the rows ChatThreadService.list selects: tenant, chatbot and user, and the
\* status when a status is given (NoneText when the caller gives none)
ListedThreads(t, chatbot_id, status) ==
    {h \in DOMAIN threads :
        /\ threads[h].tenant = t
        /\ threads[h].chatbot_id = chatbot_id
        /\ Truthy(status) => threads[h].status = status[1]}

\* ChatThreadService.list
ListThreads(t, chatbot_id, status) ==
    /\ last' = [op |-> "thread.list", tenant |-> t, target |-> chatbot_id, payload |-> status,
                result |-> IF ~ChatbotResolves(t, chatbot_id)
                           THEN NotFoundBot @@ [items |-> {}]
                           ELSE [raised |-> "none", detail |-> "ok",
                                 items |-> ListedThreads(t, chatbot_id, status)]]
    /\ UNCHANGED <<agents, aimodels, tools, networks, nodeRows, edgeRows, ifaceRows, chatVars,
                   run, registry>>

\* ChatThreadService.update with the key status (<<>> when absent)
UpdateThread(t, chatbot_id, thread_id, payload) ==
    /\ LET r == GetOwnedThread(t, chatbot_id, thread_id)
       IN /\ IF /\ r.raised = "none"
                /\ payload.status # <<>>
                /\ payload.status[1] \in {"active", "archived"}
             THEN threads' = [threads EXCEPT ![thread_id].status = payload.status[1]]
             ELSE UNCHANGED threads
          /\ last' = [op |-> "thread.update", tenant |-> t, target |-> thread_id,
                      payload |-> payload, result |-> r]
    /\ UNCHANGED <<agents, aimodels, tools, networks, nodeRows, edgeRows, ifaceRows,
                   chatbots, messages, pending, run, registry>>

\* ChatThreadService.archive and ChatThreadService.restore
ArchiveThread(t, chatbot_id, thread_id) ==
    UpdateThread(t, chatbot_id, thread_id, [status |-> <<"archived">>])
RestoreThread(t, chatbot_id, thread_id) ==
    UpdateThread(t, chatbot_id, thread_id, [status |-> <<"active">>])

\* ChatThreadService.list_messages: the positions of the messages returned
ListMessages(t, chatbot_id, thread_id) ==
    /\ LET r == GetOwnedThread(t, chatbot_id, thread_id)
       IN last' = [op |-> "thread.list_messages", tenant |-> t, target |-> thread_id,
                   payload |-> chatbot_id,
                   result |-> r @@ [items |->
                       IF r.raised # "none" THEN <<>>
                       ELSE LET Of(m) == m.tenant = t /\ m.thread_id = thread_id
                            IN SelectSeq(messages, Of)]]
    /\ UNCHANGED <<agents, aimodels, tools, networks, nodeRows, edgeRows, ifaceRows, chatVars,
                   run, registry>>

StatusFilters == {NoneText, <<>>, <<"active">>, <<"archived">>, <<"deleted">>}
StatusPayloads == {[status |-> <<>>], [status |-> <<"deleted">>]}

\* tenant t1 with an agent, a standalone network around it, the chatbot c1 on
\* the network and the thread h1 of the chatbot
InitThread ==
    /\ agents = [a \in {"a1"} |-> LiveAgent("t1", "m1", <<a>>)]
    /\ aimodels = [m \in {"m1"} |-> LlmModel("t1")]
    /\ tools = <<>>
    /\ networks = [n \in {"n1"} |->
                     [tenant |-> "t1", slug |-> <<"s">>, version |-> <<"1">>, deleted |-> FALSE,
                      is_enabled |-> TRUE, spec |-> StandaloneSpec]]
    /\ nodeRows = NodeRowsOf("n1", StandaloneSpec)
    /\ edgeRows = {}
    /\ ifaceRows = {}
    /\ chatbots = [c \in {"c1"} |->
                     [tenant |-> "t1", name |-> <<"bot">>, slug |-> <<"bot">>,
                      deleted |-> FALSE, is_enabled |-> TRUE, agent_network_id |-> "n1",
                      agent_network_version |-> <<"1">>]]
    /\ threads = [h \in {"h1"} |-> [tenant |-> "t1", chatbot_id |-> "c1", status |-> "active"]]
    /\ messages = <<>>
    /\ pending = {}
    /\ run = NoSwarmRun
    /\ registry = Registered
    /\ last = NoCall

NextThread ==
    \/ CreateThread("t1", "c1")
    \/ \E h \in {"h1", "h2"} : DeleteThread("t1", "c1", h)
    \/ \E h \in {"h1", "h2"} : GetThread("t1", "c1", h)
    \/ \E status \in StatusFilters : ListThreads("t1", "c1", status)
    \/ \E payload \in StatusPayloads : UpdateThread("t1", "c1", "h1", payload)
    \/ \E h \in {"h1", "h2"} : ArchiveThread("t1", "c1", h)
    \/ \E h \in {"h1", "h2"} : RestoreThread("t1", "c1", h)
    \/ CreateUserMessage("t1", "c1", "h1", <<"hi">>)
    \/ ListMessages("t1", "c1", "h1")
    \/ ThreadInvokeUser("t1", "c1", "h1", <<"hi">>)
    \/ \E turn \in pending : ThreadInvokeNetwork(turn)

SpecThread == InitThread /\ [][NextThread]_vars

\* the calls that resolve a thread before they do anything
ThreadQueries == {"thread.get", "thread.update", "thread.user_message", "thread.list_messages"}

\* C25: a deleted thread is excluded from every later query: get, update,
\* archive, restore, message creation and message listing on it fail, no
\* invoke on it gets as far as storing its user message, and no listing of
\* the threads of its chatbot returns it, with or without a status filter.
C25_DeletedThreadExcluded ==
    /\ (last.op \in ThreadQueries /\ last.target \in DOMAIN threads
           /\ threads[last.target].status = "deleted") => last.result.raised # "none"
    /\ last.op = "thread.turn" => threads[last.target].status # "deleted"
    /\ last.op = "thread.list" =>
           \A h \in last.result.items : threads[h].status # "deleted"

\* the thread h1 was deleted, and a listing of the threads of c1 without a
\* status filter returned it
C25_Witness ==
    /\ last.op = "thread.list"
    /\ last.payload = NoneText
    /\ threads["h1"].status = "deleted"
    /\ "h1" \in last.result.items

\* get on the deleted thread h1 failed
C25_WitnessGet ==
    /\ last.op = "thread.get"
    /\ last.target = "h1"
    /\ threads["h1"].status = "deleted"
    /\ last.result = NotFoundThread

\* ------------------------------------------------ the acyclicity check

\* edge lists over the keys, up to n edges listed in key order, an edge
\* possibly several times
RepeatedEdgeLists(keys, n) ==
    UNION {{es \in [1..m -> EdgesOver(keys)] :
              \A i \in 1..(m - 1) : EdgeRank(es[i]) <= EdgeRank(es[i + 1])} : m \in 0..n}

AcyclicSpecs ==
    UNION {{[type |-> "custom", nodes |-> ns, edges |-> es, swarm |-> NoSwarmCfg,
             interface |-> NoId] :
              es \in RepeatedEdgeLists(Range([i \in 1..Len(ns) |-> ns[i].node_key]), MaxEdges)} :
           ns \in GraphNodeLists}

\* a spec handed to the check; nothing is checked yet
InitAcyclic ==
    /\ agents = <<>>
    /\ aimodels = <<>>
    /\ tools = <<>>
    /\ networks = <<>>
    /\ nodeRows = {}
    /\ edgeRows = {}
    /\ ifaceRows = {}
    /\ NoChat
    /\ registry = Registered
    /\ \E spec \in AcyclicSpecs :
          last = [op |-> "network.spec", tenant |-> "t1", target |-> NoId, payload |-> spec,
                  result |-> Ok]

\* a call of AgentNetworkService._assert_acyclic(spec)
AssertAcyclic ==
    /\ last.op = "network.spec"
    /\ last' = [last EXCEPT
                  !.op = "network.assert_acyclic",
                  !.result = IF AssertAcyclicRaises(last.payload)
                             THEN Raise("AgentNetworkInvalid", "Cycle detected in network edges")
                                  @@ [visited |-> AssertAcyclicVisited(last.payload)]
                             ELSE Ok @@ [visited |-> AssertAcyclicVisited(last.payload)]]
    /\ UNCHANGED <<agents, aimodels, tools, networks, nodeRows, edgeRows, ifaceRows, chatVars,
                   run, registry>>

NextAcyclic == AssertAcyclic

SpecAcyclic == InitAcyclic /\ [][NextAcyclic]_vars

\* the keys that lie on a cycle of the spec
OnCycle(spec) ==
    {k \in NodeKeysOf(spec) :
        \E p \in EdgeRel(spec) : p[1] = k /\ k \in ReachableFrom(EdgeRel(spec), {p[2]})}

\* C26: the acyclicity check raises exactly when the directed graph of the
\* spec has a cycle (an edge from a node to itself included), whatever the
\* number of paths to a node and of copies of an edge; when it raises it has
\* stopped at the first cycle it met: some node is still in progress, and no
\* node it finished lies on a cycle; when it returns every node is finished.
C26_RaisesExactlyOnCycle ==
    last.op = "network.assert_acyclic" =>
        LET spec == last.payload
            visited == last.result.visited
        IN /\ (last.result.raised # "none") <=> HasDirectedCycle(spec)
           /\ last.result.raised # "none" =>
                 /\ last.result = Raise("AgentNetworkInvalid", "Cycle detected in network edges")
                                  @@ [visited |-> visited]
                 /\ \E k \in DOMAIN visited : visited[k] = 1
                 /\ \A k \in DOMAIN visited : visited[k] = 2 => k \notin OnCycle(spec)
           /\ last.result.raised = "none" =>
                 /\ DOMAIN visited = NodeKeysOf(spec)
                 /\ \A k \in DOMAIN visited : visited[k] = 2

\* a graph in which C is reached along A -> C and along A -> B -> C was accepted
C26_Witness ==
    /\ last.op = "network.assert_acyclic"
    /\ EdgeRel(last.payload) = {<<"A", "B">>, <<"B", "C">>, <<"A", "C">>}
    /\ last.result.raised = "none"

\* a graph with the edge A -> B listed twice was accepted
C26_WitnessRepeated ==
    /\ last.op = "network.assert_acyclic"
    /\ Len(last.payload.edges) = 2
    /\ last.payload.edges[1] = Edge("A", "B")
    /\ last.payload.edges[2] = Edge("A", "B")
    /\ last.result.raised = "none"

\* the cycle A -> B -> C -> A was refused
C26_WitnessCycle ==
    /\ last.op = "network.assert_acyclic"
    /\ EdgeRel(last.payload) = {<<"A", "B">>, <<"B", "C">>, <<"C", "A">>}
    /\ last.result.raised = "AgentNetworkInvalid"

\* with the nodes listed C, B, A and the edges A -> B and C -> C the check
\* raised on the loop on C and never entered A
C26_WitnessFirstCycle ==
    /\ last.op = "network.assert_acyclic"
    /\ EdgeRel(last.payload) = {<<"A", "B">>, <<"C", "C">>}
    /\ last.result.raised = "AgentNetworkInvalid"
    /\ last.result.visited["C"] = 1
    /\ "A" \notin DOMAIN last.result.visited

\* ------------------------------------------------ tools that no longer resolve

ExposeBound == <<"T2", "T1", "T3", "T4", "T9">>
ExposeAllowLists == {NoneList, <<>>, <<"T1", "T2", "T4">>, <<"T3", "T9", "T1">>}

\* Agent a1 of tenant t1 with five ids in its bindings (a JSON column without
\* foreign keys): T1 and T2 are sql.select tools of t1, T3 is a tool of
\* tenant t2, T4 is a tool of t1 of a kind that has no adapter in this
\* process, and no row has the id T9.
InitExpose ==
    /\ agents = [a \in {"a1"} |-> [LiveAgent("t1", "m1", <<a>>) EXCEPT !.bound = ExposeBound]]
    /\ aimodels = [m \in {"m1"} |-> LlmModel("t1")]
    /\ tools = [x \in {"T1", "T2", "T3", "T4"} |->
                  [LiveTool(IF x = "T3" THEN "t2" ELSE "t1",
                            IF x = "T4" THEN "graph.query" ELSE "sql.select")
                      EXCEPT !.name = <<x>>]]
    /\ networks = <<>>
    /\ nodeRows = {}
    /\ edgeRows = {}
    /\ ifaceRows = {}
    /\ last = NoCall
    /\ NoChat
    /\ registry = Registered

NextExpose ==
    \/ \E l \in ExposeAllowLists : InvokeAgent("t1", "a1", [allowed_tools |-> l])
    \/ \E l \in ExposeAllowLists :
          UpdateAgent("t1", "a1",
                      [NoAgentChange EXCEPT !.config = <<[limits |-> DefaultLimits,
                                                         allowed_tools |-> l]>>])
    \/ \E x \in {"T1", "T2"} : DeleteTool("t1", x)
    \/ \E x \in {"T1", "T2"} : \E enabled \in BOOLEAN : SetToolEnabled("t1", x, enabled)
    \/ Register("graph.query", "SqlSelectAdapter", NoId)

SpecExpose == InitExpose /\ [][NextExpose]_vars

\* the id names a tool of the tenant that is not soft-deleted and whose kind
\* has an adapter under its provider or under None
ToolUsable(t, x) ==
    /\ x \in DOMAIN tools
    /\ tools[x].tenant = t
    /\ ~tools[x].deleted
    /\ \/ <<tools[x].kind, tools[x].provider>> \in DOMAIN registry
       \/ <<tools[x].kind, NoId>> \in DOMAIN registry

\* C27: an invocation of an enabled agent with a usable model does not fail
\* over the ids of its bindings: the ids the allow-list permits that are
\* soft-deleted, missing, of another tenant or without adapter are left out,
\* and the other permitted ids are exposed in the order of the bindings.
C27_UnresolvedToolsSkipped ==
    last.op = "agent.invoke" =>
        LET agent == agents[last.target]
            given == last.payload.allowed_tools
            effective == IF given # NoneList THEN given ELSE agent.allowed_tools
            Kept(x) == /\ effective # NoneList => x \in Range(effective)
                       /\ ToolUsable(last.tenant, x)
        IN /\ last.result.raised = "none"
           /\ last.result.ran
           /\ last.result.exposed = SelectSeq(agent.bound, Kept)

\* with T2 soft-deleted and no allow-list, the agent ran with T1 alone
C27_Witness ==
    /\ last.op = "agent.invoke"
    /\ last.payload.allowed_tools = NoneList
    /\ agents["a1"].allowed_tools = NoneList
    /\ tools["T2"].deleted
    /\ <<"graph.query", NoId>> \notin DOMAIN registry
    /\ last.result.raised = "none"
    /\ last.result.exposed = <<"T1">>

\* once an adapter for its kind is registered T4 is exposed, after T2 and T1
C27_WitnessOrder ==
    /\ last.op = "agent.invoke"
    /\ last.payload.allowed_tools = <<"T1", "T2", "T4">>
    /\ last.result.exposed = <<"T2", "T1", "T4">>

\* ------------------------------------------------ specification of a disabled chatbot

\* tenant t1 with the chatbot c1 on an enabled network and the thread h1 of the
\* chatbot; the chatbot is disabled and enabled again, and invoked directly
\* and through the thread
InitDisabled == InitThread

NextDisabled ==
    \/ \E enabled \in BOOLEAN : SetChatbotEnabled("t1", "c1", enabled)
    \/ InvokeChatbot("t1", "c1")
    \/ ThreadInvokeUser("t1", "c1", "h1", <<"hi">>)
    \/ \E turn \in pending : ThreadInvokeNetwork(turn)
    \/ \E payload \in EnableToggles : UpdateNetwork("t1", "n1", payload)

SpecDisabled == InitDisabled /\ [][NextDisabled]_vars

\* the chatbot row exists for the tenant and its is_enabled flag is false
ChatbotDisabled(t, chatbot_id) ==
    ChatbotResolves(t, chatbot_id) /\ ~chatbots[chatbot_id].is_enabled

\* C28: a disabled chatbot never produces a network invocation: an invocation
\* of the chatbot, direct or through a thread, that starts while the chatbot
\* is disabled is refused, calls no network and, on the thread path, stores no
\* message.
C28_DisabledChatbotRefuses ==
    [][ChatbotDisabled("t1", "c1") =>
          /\ last'.op = "chatbot.invoke" =>
                /\ last'.result.raised = "ChatbotInvalid"
                /\ last'.result.called = <<>>
          /\ last'.op \in {"thread.turn", "thread.invoke"} =>
                /\ last'.result.raised # "none"
                /\ last'.result.called = <<>>
                /\ messages' = messages
                /\ pending' = {}
       ]_vars

\* a thread turn that started and ended while the chatbot was disabled invoked
\* the network and stored the user message and the assistant message
C28_Witness ==
    /\ ChatbotDisabled("t1", "c1")
    /\ last.op = "thread.invoke"
    /\ last.result.raised = "none"
    /\ last.result.called # <<>>
    /\ messages = <<ChatMessage("t1", "h1", "user", <<"hi">>),
                    ChatMessage("t1", "h1", "assistant", <<"answer">>)>>

\* the direct invocation of the disabled chatbot was refused and called nothing
C28_WitnessDirect ==
    /\ ChatbotDisabled("t1", "c1")
    /\ last.op = "chatbot.invoke"
    /\ last.result.raised = "ChatbotInvalid"
    /\ last.result.detail = "Chatbot is disabled"
    /\ last.result.called = <<>>

\* a thread turn on the disabled chatbot stored its user message
C28_WitnessUserMessage ==
    /\ ChatbotDisabled("t1", "c1")
    /\ last.op = "thread.turn"
    /\ messages = <<ChatMessage("t1", "h1", "user", <<"hi">>)>>

\* ------------------------------------------------ specification of the stored sentinel

\* patches that send the sentinel: for the stored api_key, for base_url and
\* for a header, and patches that send other values for the same keys
SentinelPatchConfigs ==
    {KeyOnly(REDACTED), KeyOnly(Str("sk-2")),
     [k \in {<<"base_url">>} |-> REDACTED],
     [k \in {<<"base_url">>} |-> Str("https://api.openai.com")],
     [k \in {<<"base_url">>} |-> Null],
     [k \in {<<"extra_headers">>} |-> Dict([a \in {<<"Authorization">>} |-> REDACTED])],
     [k \in {<<"extra_headers">>} |-> Dict([a \in {<<"Authorization">>} |-> Str("b2")])]}

SentinelPatches == {[is_enabled |-> <<>>, config |-> <<c>>] : c \in SentinelPatchConfigs}

InitSentinel == InitModel

NextSentinel ==
    \/ \E payload \in ModelCreatePayloads : CreateModel("t1", payload)
    \/ \E payload \in SentinelPatches : UpdateModel("t1", "m1", payload)
    \/ GetModel("t1", "m1")
    \/ DeleteModel("t1", "m1")

SpecSentinel == InitSentinel /\ [][NextSentinel]_vars

\* some key of the config, at any depth, has the sentinel as its value
RECURSIVE HoldsSentinel(_)
HoldsSentinel(d) ==
    \E k \in DOMAIN d :
        \/ IsRedacted(d[k])
        \/ IsDict(d[k]) /\ HoldsSentinel(d[k][2])

StoredConfig(model_id) == DecryptConfig(aimodels[model_id].config_encrypted)

\* C29: the stored (decrypted) configuration of a model never holds the
\* redaction sentinel as a value, whatever create and patch-update calls were
\* made.
C29_StoredConfigHoldsNoSentinel ==
    \A m \in DOMAIN aimodels : ~HoldsSentinel(StoredConfig(m))

\* a patch sent the sentinel for base_url on a model that had no base_url:
\* the update succeeded and the stored base_url is the sentinel
C29_Witness ==
    /\ last.op = "model.update"
    /\ last.result.raised = "none"
    /\ last.payload.config = <<[k \in {<<"base_url">>} |-> REDACTED]>>
    /\ StoredKey(aimodels, "m1") = Str("sk-1")
    /\ DictGet(StoredConfig("m1"), <<"base_url">>) = REDACTED

\* a create whose api_key is the sentinel succeeded and stored it
C29_WitnessCreate ==
    /\ last.op = "model.create"
    /\ last.result.raised = "none"
    /\ StoredKey(aimodels, last.target) = REDACTED

\* a sentinel patch for a key that has a stored value leaves the stored config
\* without the sentinel
C29_WitnessKept ==
    /\ last.op = "model.update"
    /\ last.result.raised = "none"
    /\ last.payload.config = <<KeyOnly(REDACTED)>>
    /\ ~HoldsSentinel(StoredConfig("m1"))

\* ------------------------------------------------ specification of the swarm settings

\* default_active_agent and handoff_policy as a caller may write them: absent,
\* empty, exact, with surrounding whitespace, and whitespace alone
SettingActiveTexts == {NoneText, <<>>, <<"A">>, <<"B">>, <<"B", " ">>, <<" ", "A">>, <<" ">>, <<"X">>}
SettingPolicyTexts ==
    {NoneText, <<>>, <<"edges">>, <<"edges", " ">>, <<"allow_all">>, <<" ", "allow_all">>,
     <<" ">>, <<"bogus">>}

\* swarms of the nodes A and B, without edges or with the edge A -> B
SettingSpecs ==
    {[type |-> "swarm", nodes |-> <<GraphNode("A", 1), GraphNode("B", 2)>>, edges |-> es,
      swarm |-> [default_active_agent |-> a, handoff_policy |-> p], interface |-> NoId] :
        es \in {<<>>, <<Edge("A", "B")>>}, a \in SettingActiveTexts, p \in SettingPolicyTexts}

SettingPayloads ==
    {[slug |-> <<"s">>, version |-> <<"1">>, is_enabled |-> TRUE, spec |-> sp] : sp \in SettingSpecs}

InitSettings == InitGraph

NextSettings ==
    \/ DOMAIN networks = {} /\ \E payload \in SettingPayloads : CreateNetwork("t1", payload)
    \/ ValidateNetworkCall("t1", "n1")
    \/ InvokeNetworkCall("t1", "n1", NoOverrides)

SpecSettings == InitSettings /\ [][NextSettings]_vars

\* the spec with the swarm settings replaced by the values that
\* _validate_swarm_spec checks: its locals default_active and policy
AsValidated(spec) ==
    [spec EXCEPT !.swarm = [default_active_agent |-> Strip(OrElse(@.default_active_agent, <<>>)),
                            handoff_policy |-> Strip(OrElse(@.handoff_policy, <<"edges">>))]]

\* C30: validate and invoke read the swarm settings the same way: for every
\* swarm spec on which validate succeeds, an invocation that runs builds the
\* handoff tools of, and starts with the default active agent of, the handoff
\* policy and the default_active_agent that validate checked, also when a
\* setting carries surrounding whitespace or is absent.
C30_InvokeReadsSettingsAsValidate ==
    (/\ LastOnNetwork("network.invoke")
     /\ LastSpec.type = "swarm"
     /\ ValidateNetwork(last.tenant, last.target).raised = "none"
     /\ last.result.raised = "none")
    => /\ last.result.handoff = InvokeSwarm(last.tenant, AsValidated(LastSpec)).handoff
       /\ last.result.default_active = InvokeSwarm(last.tenant, AsValidated(LastSpec)).default_active

\* validate accepted the policy "edges " as edges; the invocation, with the
\* edge A -> B only, built B with a handoff tool to A, as under allow_all
C30_Witness ==
    /\ LastOnNetwork("network.invoke")
    /\ LastSpec.swarm.handoff_policy = <<"edges", " ">>
    /\ LastSpec.swarm.default_active_agent = NoneText
    /\ LastSpec.edges = <<Edge("A", "B")>>
    /\ ValidateNetwork(last.tenant, last.target).raised = "none"
    /\ last.result.raised = "none"
    /\ last.result.handoff = <<(<<"B">>), (<<"A">>)>>

\* validate accepted the default_active_agent "B " as the node B; the
\* invocation started the swarm with the name "B ", which is no node
C30_WitnessActive ==
    /\ LastOnNetwork("network.invoke")
    /\ LastSpec.swarm.default_active_agent = <<"B", " ">>
    /\ ValidateNetwork(last.tenant, last.target).raised = "none"
    /\ last.result.raised = "none"
    /\ last.result.default_active = <<"B", " ">>
    /\ last.result.default_active \notin {KeyText(k) : k \in NodeKeysOf(LastSpec)}

\* with both settings absent the invocation ran under the policy edges and
\* started with the first node, as validate leaves it
C30_WitnessAbsent ==
    /\ LastOnNetwork("network.invoke")
    /\ LastSpec.swarm = NoSwarmCfg
    /\ LastSpec.edges = <<Edge("A", "B")>>
    /\ ValidateNetwork(last.tenant, last.target).raised = "none"
    /\ last.result.raised = "none"
    /\ last.result.handoff = <<(<<"B">>), <<>>>>
    /\ last.result.default_active = <<"A">>

\* the policy " allow_all" runs as allow_all: here the two readings agree
C30_WitnessAllowAll ==
    /\ LastOnNetwork("network.invoke")
    /\ LastSpec.swarm.handoff_policy = <<" ", "allow_all">>
    /\ LastSpec.swarm.default_active_agent = <<"A">>
    /\ ValidateNetwork(last.tenant, last.target).raised = "none"
    /\ last.result = InvokeSwarm(last.tenant, AsValidated(LastSpec))

====
